---------------------------- MODULE Spec2Model ----------------------------
(***************************************************************************)
(* Model of the proteomics power-calculation engine                        *)
(* (src/src/utils/statistics.ts).                                         *)
(*                                                                         *)
(* The engine is a library of pure functions over IEEE numbers.  Numbers   *)
(* are modelled as fixed-point integers with S units per 1.0, together     *)
(* with the three IEEE special values Infinity, -Infinity and NaN.  The    *)
(* arithmetic operators below follow the IEEE rules for the special        *)
(* values (x/0, Inf-Inf, 0*Inf, sqrt of a negative, ...), round at the     *)
(* model's resolution and overflow to Infinity above MaxFinite, as a       *)
(* double overflows above 1.8e308.                                         *)
(***************************************************************************)
EXTENDS Integers, Sequences, FiniteSets, TLC

\* Fixed-point resolution: S units are 1.0
S == 10^5
\* Largest finite magnitude (20000.0); beyond it a result overflows
MaxFinite == 2 * 10^9
Infinity == MaxFinite + 1
NegInfinity == 0 - Infinity
NaN == MaxFinite + 2

IsNaN(x) == x = NaN
IsInf(x) == x = Infinity \/ x = NegInfinity
\* isFinite(x) of JavaScript
isFinite(x) == ~IsNaN(x) /\ ~IsInf(x)

\* IEEE comparisons: every comparison with NaN is false
FLt(a, b) == ~IsNaN(a) /\ ~IsNaN(b) /\ a < b
FLe(a, b) == ~IsNaN(a) /\ ~IsNaN(b) /\ a <= b
FGt(a, b) == ~IsNaN(a) /\ ~IsNaN(b) /\ a > b
FGe(a, b) == ~IsNaN(a) /\ ~IsNaN(b) /\ a >= b
\* a === b of JavaScript on numbers (NaN equals nothing)
FEq(a, b) == ~IsNaN(a) /\ ~IsNaN(b) /\ a = b

Sign(x) == IF x < 0 THEN 0 - 1 ELSE 1
Mag(x) == IF x < 0 THEN 0 - x ELSE x
\* A finite result, overflowing to +-Infinity
Sat(x) == IF x > MaxFinite THEN Infinity
          ELSE IF x < 0 - MaxFinite THEN NegInfinity ELSE x

\* Math.abs
FAbs(x) == IF IsNaN(x) THEN NaN ELSE Mag(x)
\* unary minus
FNeg(x) == IF IsNaN(x) THEN NaN ELSE 0 - x

\* a + b
FAdd(a, b) ==
    IF IsNaN(a) \/ IsNaN(b) THEN NaN
    ELSE IF IsInf(a) /\ IsInf(b) THEN (IF a = b THEN a ELSE NaN)
    ELSE IF IsInf(a) THEN a
    ELSE IF IsInf(b) THEN b
    ELSE Sat(a + b)

\* a - b
FSub(a, b) == FAdd(a, FNeg(b))

\* <<q, r>> with q * c + r = r0 * b, for 0 <= r0 < c, by doubling over the
\* bits of b (no intermediate exceeds 3 * c)
RECURSIVE MulMod(_, _, _)
MulMod(r0, b, c) ==
    IF b = 0 THEN <<0, 0>>
    ELSE LET h == MulMod(r0, b \div 2, c)
             t == 2 * h[2] + r0 * (b % 2)
         IN  <<2 * h[1] + t \div c, t % c>>

\* the quotient of <<q, r>> by c, rounded half up
RoundHalfUp(qr, c) == qr[1] + (IF 2 * qr[2] >= c THEN 1 ELSE 0)

\* qa * b + lo, overflowing to Infinity
MulAdd(qa, b, lo) ==
    IF qa > 0 /\ b > (MaxFinite - lo) \div qa THEN Infinity
    ELSE Sat(qa * b + lo)

\* a * b / c rounded to the nearest integer, for a, b >= 0 and c > 0,
\* overflowing to Infinity
MulDiv(a, b, c) == MulAdd(a \div c, b, RoundHalfUp(MulMod(a % c, b, c), c))

\* Divisors above this are scaled down before the long division
BigDivisor == 5 * 10^8

\* a * b
FMul(a, b) ==
    IF IsNaN(a) \/ IsNaN(b) THEN NaN
    ELSE IF IsInf(a) \/ IsInf(b)
         THEN (IF a = 0 \/ b = 0 THEN NaN
               ELSE IF Sign(a) = Sign(b) THEN Infinity ELSE NegInfinity)
    ELSE (Sign(a) * Sign(b)) * MulDiv(Mag(a), Mag(b), S)

\* a / b
FDiv(a, b) ==
    IF IsNaN(a) \/ IsNaN(b) THEN NaN
    ELSE IF IsInf(a)
         THEN (IF IsInf(b) THEN NaN
               ELSE IF Sign(a) = Sign(b) THEN Infinity ELSE NegInfinity)
    ELSE IF IsInf(b) THEN 0
    ELSE IF b = 0
         THEN (IF a = 0 THEN NaN ELSE IF a > 0 THEN Infinity ELSE NegInfinity)
    ELSE (Sign(a) * Sign(b)) * (IF Mag(b) > BigDivisor
                                THEN MulDiv(Mag(a), S \div 10, Mag(b) \div 10)
                                ELSE MulDiv(Mag(a), S, Mag(b)))

\* Math.min, Math.max (NaN if either argument is NaN)
FMin(a, b) == IF IsNaN(a) \/ IsNaN(b) THEN NaN ELSE IF a < b THEN a ELSE b
FMax(a, b) == IF IsNaN(a) \/ IsNaN(b) THEN NaN ELSE IF a > b THEN a ELSE b

\* Math.ceil, Math.floor
FCeil(x) == IF ~isFinite(x) THEN x ELSE 0 - (((0 - x) \div S) * S)

\* floor of the square root of a natural number below 2^31, by bisection
RECURSIVE ISqrtIn(_, _, _)
ISqrtIn(n, lo, hi) ==
    IF lo >= hi THEN lo
    ELSE LET mid == (lo + hi + 1) \div 2
         IN  IF mid * mid <= n THEN ISqrtIn(n, mid, hi)
             ELSE ISqrtIn(n, lo, mid - 1)
ISqrt(n) == ISqrtIn(n, 0, 46340)

\* Math.sqrt: sqrt(x / S) * S = sqrt(x * S), scaled so that x * S does not overflow
FSqrt(x) ==
    IF IsNaN(x) \/ x < 0 THEN NaN
    ELSE IF x = Infinity THEN Infinity
    ELSE IF x <= 21474 THEN ISqrt(x * 100000)
    ELSE IF x <= 2147483 THEN ISqrt(x * 1000) * 10
    ELSE IF x <= 214748364 THEN ISqrt(x * 10) * 100
    ELSE ISqrt(x \div 10) * 1000


\* ln(1 + i/200) for i = 0..200, in units of 1/S (Math.log on [1, 2])
LnTable ==
    << 0, 499, 995, 1489, 1980, 2469, 2956, 3440, 3922, 4402,
       4879, 5354, 5827, 6297, 6766, 7232, 7696, 8158, 8618, 9075,
       9531, 9985, 10436, 10885, 11333, 11778, 12222, 12663, 13103, 13540,
       13976, 14410, 14842, 15272, 15700, 16127, 16551, 16974, 17395, 17815,
       18232, 18648, 19062, 19474, 19885, 20294, 20701, 21107, 21511, 21914,
       22314, 22714, 23111, 23507, 23902, 24295, 24686, 25076, 25464, 25851,
       26236, 26620, 27003, 27384, 27763, 28141, 28518, 28893, 29267, 29639,
       30010, 30380, 30748, 31115, 31481, 31845, 32208, 32570, 32930, 33289,
       33647, 34004, 34359, 34713, 35066, 35417, 35767, 36116, 36464, 36811,
       37156, 37501, 37844, 38186, 38526, 38866, 39204, 39541, 39878, 40213,
       40547, 40879, 41211, 41542, 41871, 42199, 42527, 42853, 43178, 43502,
       43825, 44148, 44469, 44789, 45108, 45426, 45742, 46058, 46373, 46687,
       47000, 47312, 47623, 47933, 48243, 48551, 48858, 49164, 49470, 49774,
       50078, 50380, 50682, 50983, 51282, 51581, 51879, 52177, 52473, 52768,
       53063, 53357, 53649, 53941, 54232, 54523, 54812, 55101, 55389, 55675,
       55962, 56247, 56531, 56815, 57098, 57380, 57661, 57942, 58222, 58501,
       58779, 59056, 59333, 59609, 59884, 60158, 60432, 60704, 60977, 61248,
       61519, 61788, 62058, 62326, 62594, 62861, 63127, 63393, 63658, 63922,
       64185, 64448, 64710, 64972, 65233, 65493, 65752, 66011, 66269, 66526,
       66783, 67039, 67294, 67549, 67803, 68057, 68310, 68562, 68813, 69064,
       69315 >>

\* Math.log(2)
Ln2 == LnTable[201]

\* exp(i/200) for i = 0..140, in units of 1/S (Math.exp on [0, 0.7])
ExpTable ==
    << 100000, 100501, 101005, 101511, 102020, 102532, 103045, 103562, 104081, 104603,
       105127, 105654, 106184, 106716, 107251, 107788, 108329, 108872, 109417, 109966,
       110517, 111071, 111628, 112187, 112750, 113315, 113883, 114454, 115027, 115604,
       116183, 116766, 117351, 117939, 118530, 119125, 119722, 120322, 120925, 121531,
       122140, 122753, 123368, 123986, 124608, 125232, 125860, 126491, 127125, 127762,
       128403, 129046, 129693, 130343, 130996, 131653, 132313, 132976, 133643, 134313,
       134986, 135663, 136343, 137026, 137713, 138403, 139097, 139794, 140495, 141199,
       141907, 142618, 143333, 144051, 144773, 145499, 146228, 146961, 147698, 148438,
       149182, 149930, 150682, 151437, 152196, 152959, 153726, 154496, 155271, 156049,
       156831, 157617, 158407, 159201, 159999, 160801, 161607, 162418, 163232, 164050,
       164872, 165699, 166529, 167364, 168203, 169046, 169893, 170745, 171601, 172461,
       173325, 174194, 175067, 175945, 176827, 177713, 178604, 179499, 180399, 181303,
       182212, 183125, 184043, 184966, 185893, 186825, 187761, 188702, 189648, 190599,
       191554, 192514, 193479, 194449, 195424, 196403, 197388, 198377, 199372, 200371,
       201375 >>

\* Standard normal CDF at z = i/100 for i = 0..450, in units of 1/S
\* (jstat.normal.cdf(z, 0, 1); above z = 4.5 it is 1 at this resolution)
PhiTable ==
    << 50000, 50399, 50798, 51197, 51595, 51994, 52392, 52790, 53188, 53586,
       53983, 54380, 54776, 55172, 55567, 55962, 56356, 56749, 57142, 57535,
       57926, 58317, 58706, 59095, 59483, 59871, 60257, 60642, 61026, 61409,
       61791, 62172, 62552, 62930, 63307, 63683, 64058, 64431, 64803, 65173,
       65542, 65910, 66276, 66640, 67003, 67364, 67724, 68082, 68439, 68793,
       69146, 69497, 69847, 70194, 70540, 70884, 71226, 71566, 71904, 72240,
       72575, 72907, 73237, 73565, 73891, 74215, 74537, 74857, 75175, 75490,
       75804, 76115, 76424, 76730, 77035, 77337, 77637, 77935, 78230, 78524,
       78814, 79103, 79389, 79673, 79955, 80234, 80511, 80785, 81057, 81327,
       81594, 81859, 82121, 82381, 82639, 82894, 83147, 83398, 83646, 83891,
       84134, 84375, 84614, 84849, 85083, 85314, 85543, 85769, 85993, 86214,
       86433, 86650, 86864, 87076, 87286, 87493, 87698, 87900, 88100, 88298,
       88493, 88686, 88877, 89065, 89251, 89435, 89617, 89796, 89973, 90147,
       90320, 90490, 90658, 90824, 90988, 91149, 91309, 91466, 91621, 91774,
       91924, 92073, 92220, 92364, 92507, 92647, 92785, 92922, 93056, 93189,
       93319, 93448, 93574, 93699, 93822, 93943, 94062, 94179, 94295, 94408,
       94520, 94630, 94738, 94845, 94950, 95053, 95154, 95254, 95352, 95449,
       95543, 95637, 95728, 95818, 95907, 95994, 96080, 96164, 96246, 96327,
       96407, 96485, 96562, 96638, 96712, 96784, 96856, 96926, 96995, 97062,
       97128, 97193, 97257, 97320, 97381, 97441, 97500, 97558, 97615, 97670,
       97725, 97778, 97831, 97882, 97932, 97982, 98030, 98077, 98124, 98169,
       98214, 98257, 98300, 98341, 98382, 98422, 98461, 98500, 98537, 98574,
       98610, 98645, 98679, 98713, 98745, 98778, 98809, 98840, 98870, 98899,
       98928, 98956, 98983, 99010, 99036, 99061, 99086, 99111, 99134, 99158,
       99180, 99202, 99224, 99245, 99266, 99286, 99305, 99324, 99343, 99361,
       99379, 99396, 99413, 99430, 99446, 99461, 99477, 99492, 99506, 99520,
       99534, 99547, 99560, 99573, 99585, 99598, 99609, 99621, 99632, 99643,
       99653, 99664, 99674, 99683, 99693, 99702, 99711, 99720, 99728, 99736,
       99744, 99752, 99760, 99767, 99774, 99781, 99788, 99795, 99801, 99807,
       99813, 99819, 99825, 99831, 99836, 99841, 99846, 99851, 99856, 99861,
       99865, 99869, 99874, 99878, 99882, 99886, 99889, 99893, 99896, 99900,
       99903, 99906, 99910, 99913, 99916, 99918, 99921, 99924, 99926, 99929,
       99931, 99934, 99936, 99938, 99940, 99942, 99944, 99946, 99948, 99950,
       99952, 99953, 99955, 99957, 99958, 99960, 99961, 99962, 99964, 99965,
       99966, 99968, 99969, 99970, 99971, 99972, 99973, 99974, 99975, 99976,
       99977, 99978, 99978, 99979, 99980, 99981, 99981, 99982, 99983, 99983,
       99984, 99985, 99985, 99986, 99986, 99987, 99987, 99988, 99988, 99989,
       99989, 99990, 99990, 99990, 99991, 99991, 99992, 99992, 99992, 99992,
       99993, 99993, 99993, 99994, 99994, 99994, 99994, 99995, 99995, 99995,
       99995, 99995, 99996, 99996, 99996, 99996, 99996, 99996, 99997, 99997,
       99997, 99997, 99997, 99997, 99997, 99997, 99998, 99998, 99998, 99998,
       99998, 99998, 99998, 99998, 99998, 99998, 99998, 99998, 99999, 99999,
       99999, 99999, 99999, 99999, 99999, 99999, 99999, 99999, 99999, 99999,
       99999, 99999, 99999, 99999, 99999, 99999, 99999, 99999, 99999, 99999,
       99999, 99999, 100000, 100000, 100000, 100000, 100000, 100000, 100000, 100000,
       100000 >>

\* Linear interpolation in a table whose entries are `step` units apart
Interp(table, x, step) ==
    LET i == x \div step
        r == x % step
    IN  IF r = 0 THEN table[i + 1]
        ELSE table[i + 1] + ((table[i + 2] - table[i + 1]) * r) \div step

\* The power of two k with S * 2^k <= x < S * 2^(k+1), for x > 0
RECURSIVE Log2Floor(_, _)
Log2Floor(x, k) ==
    IF x >= 2 * S THEN Log2Floor(x \div 2, k + 1)
    ELSE IF x < S THEN Log2Floor(x * 2, k - 1)
    ELSE k

\* Math.log
FLog(x) ==
    IF IsNaN(x) \/ x < 0 THEN NaN
    ELSE IF x = 0 THEN NegInfinity
    ELSE IF x = Infinity THEN Infinity
    ELSE LET k == Log2Floor(x, 0)
             m == IF k >= 0 THEN x \div (2 ^ k) ELSE x * (2 ^ (0 - k))
         IN  k * Ln2 + Interp(LnTable, m - S, S \div 200)

\* Math.exp
FExp(x) ==
    IF IsNaN(x) THEN NaN
    ELSE IF x = Infinity THEN Infinity
    ELSE IF x = NegInfinity THEN 0
    ELSE LET k == x \div Ln2
             e == Interp(ExpTable, x - k * Ln2, S \div 200)
         IN  IF k > 30 THEN Infinity
             ELSE IF k >= 0
                  THEN (IF e > MaxFinite \div (2 ^ k) THEN Infinity ELSE e * (2 ^ k))
             ELSE IF k < 0 - 30 THEN 0
             ELSE e \div (2 ^ (0 - k))

\* Last tabulated z of PhiTable
PhiMax == (Len(PhiTable) - 1) * (S \div 100)

\* jstat.normal.cdf(z, 0, 1)
jstatNormalCdf(z) ==
    IF IsNaN(z) THEN NaN
    ELSE IF z >= PhiMax THEN S
    ELSE IF z <= 0 - PhiMax THEN 0
    ELSE IF z >= 0 THEN Interp(PhiTable, z, S \div 100)
    ELSE S - Interp(PhiTable, 0 - z, S \div 100)

\* Largest index i in lo..hi with PhiTable[i] <= p (PhiTable[lo] <= p)
RECURSIVE PhiIndex(_, _, _)
PhiIndex(p, lo, hi) ==
    IF lo >= hi THEN lo
    ELSE LET mid == (lo + hi + 1) \div 2
         IN  IF PhiTable[mid] <= p THEN PhiIndex(p, mid, hi)
             ELSE PhiIndex(p, lo, mid - 1)

\* jstat's erfcinv returns -100 / 100 at and beyond the ends of its domain,
\* which normal.inv scales by sqrt(2): 141.42136
QuantileLimit == 141 * S + 42136

\* The z >= 0 with cdf(z) = p, for S/2 <= p < S
QuantileUpper(p) ==
    LET i == PhiIndex(p, 1, Len(PhiTable) - 1)
    IN  (i - 1) * (S \div 100)
        + ((p - PhiTable[i]) * (S \div 100)) \div (PhiTable[i + 1] - PhiTable[i])

\* jstat.normal.inv(p, 0, 1)
jstatNormalInv(p) ==
    IF IsNaN(p) THEN NaN
    ELSE IF p >= S THEN QuantileLimit
    ELSE IF p <= 0 THEN 0 - QuantileLimit
    ELSE IF 2 * p >= S THEN QuantileUpper(p)
    ELSE 0 - QuantileUpper(S - p)

\* src/src/utils/statistics.ts:109
normalCDF(z) == jstatNormalCdf(z)

\* src/src/utils/statistics.ts:117
normalQuantile(p) == jstatNormalInv(p)

(***************************************************************************)
(* The calculators of src/src/utils/statistics.ts                          *)
(***************************************************************************)
One == S

\* `if (covariateR2 < 0 || covariateR2 >= 1) covariateR2 = 0`
\* A variant that uses covariateR2 as given
SanitizeR2Unchecked(covariateR2) == covariateR2

SanitizeR2(covariateR2) ==
    IF FLt(covariateR2, 0) \/ FGe(covariateR2, One) THEN 0 ELSE covariateR2

\* An optional {subcohortSize, totalCohort} or {cases, controls} argument:
\* given = FALSE is JavaScript's undefined
NoDesign == [given |-> FALSE, a |-> 0, b |-> 0]
Design(a, b) == [given |-> TRUE, a |-> a, b |-> b]

\* A variant that divides by a zero test count
calculateEffectiveAlphaZeroTests(threshold, numTests, method) ==
    IF FLt(numTests, 0) THEN threshold
    ELSE FDiv(threshold, numTests)

calculateEffectiveAlpha(threshold, numTests, method) ==
    IF FLe(numTests, 0) THEN threshold
    ELSE FDiv(threshold, numTests)

\* A variant that counts the upper rejection region only
TwoSidedPowerUpperTail(lambda, zAlpha) ==
    FMin(FMax(normalCDF(FSub(lambda, zAlpha)), 0), One)

\* normalCDF(lambda - zAlpha) + normalCDF(-lambda - zAlpha), clamped to [0, 1]
TwoSidedPower(lambda, zAlpha) ==
    LET power == FAdd(normalCDF(FSub(lambda, zAlpha)),
                      normalCDF(FSub(FNeg(lambda), zAlpha)))
    IN  FMin(FMax(power, 0), One)

\* normalQuantile(1 - alpha / 2)
ZAlpha(alpha) == normalQuantile(FSub(One, FDiv(alpha, 2 * S)))

\* ---- Cox ----
\* A variant without the reciprocal: sqrt(events * (1 - R2))
calculateCoxSEInverted(events, covariateR2) ==
    IF FLe(events, 0) THEN Infinity
    ELSE FSqrt(FMul(events, FSub(One, SanitizeR2(covariateR2))))

calculateCoxSE(events, covariateR2) ==
    IF FLe(events, 0) THEN Infinity
    ELSE FDiv(One, FSqrt(FMul(events, FSub(One, SanitizeR2(covariateR2)))))

calculateCoxCaseCohortSE(events, subcohortSize, totalCohort, covariateR2) ==
    IF FLe(events, 0) \/ FLe(subcohortSize, 0) THEN Infinity
    ELSE LET samplingFraction == FDiv(subcohortSize, totalCohort)
             vif == FAdd(One, FDiv(FSub(One, samplingFraction), samplingFraction))
         IN  FDiv(FSqrt(vif),
                  FSqrt(FMul(events, FSub(One, SanitizeR2(covariateR2)))))

\* A variant that rejects protective hazard ratios, as calculateCoxRequiredEvents does
calculateCoxPowerHarmfulOnly(hazardRatio, events, alpha, caseCohort, covariateR2) ==
    IF FLe(hazardRatio, One) \/ FLe(events, 0) \/ FLe(alpha, 0) \/ FGe(alpha, One)
    THEN 0
    ELSE LET logHR == FLog(hazardRatio)
             se == IF caseCohort.given
                   THEN calculateCoxCaseCohortSE(events, caseCohort.a, caseCohort.b,
                                                 covariateR2)
                   ELSE calculateCoxSE(events, covariateR2)
             lambda == FDiv(FAbs(logHR), se)
         IN  TwoSidedPower(lambda, ZAlpha(alpha))

calculateCoxPower(hazardRatio, events, alpha, caseCohort, covariateR2) ==
    IF FLe(hazardRatio, 0) \/ FLe(events, 0) \/ FLe(alpha, 0) \/ FGe(alpha, One)
    THEN 0
    ELSE LET logHR == FLog(hazardRatio)
             se == IF caseCohort.given
                   THEN calculateCoxCaseCohortSE(events, caseCohort.a, caseCohort.b,
                                                 covariateR2)
                   ELSE calculateCoxSE(events, covariateR2)
             lambda == FDiv(FAbs(logHR), se)
         IN  TwoSidedPower(lambda, ZAlpha(alpha))

calculateCoxMinEffect(targetPower, events, alpha, caseCohort, covariateR2) ==
    IF FLe(events, 0) \/ FLe(alpha, 0) \/ FGe(alpha, One)
       \/ FLe(targetPower, 0) \/ FGe(targetPower, One)
    THEN Infinity
    ELSE LET se == IF caseCohort.given
                   THEN calculateCoxCaseCohortSE(events, caseCohort.a, caseCohort.b,
                                                 covariateR2)
                   ELSE calculateCoxSE(events, covariateR2)
             zBeta == normalQuantile(targetPower)
             minLogHR == FMul(FAdd(ZAlpha(alpha), zBeta), se)
         IN  FExp(minLogHR)

\* A variant that accepts protective hazard ratios and rejects only
\* hazardRatio <= 0 and hazardRatio = 1
calculateCoxRequiredEventsAnyDirection(hazardRatio, targetPower, alpha, covariateR2) ==
    IF FLe(hazardRatio, 0) \/ FEq(hazardRatio, One) \/ FLe(targetPower, 0)
       \/ FGe(targetPower, One) \/ FLe(alpha, 0) \/ FGe(alpha, One)
    THEN Infinity
    ELSE LET logHR == FLog(hazardRatio)
             zBeta == normalQuantile(targetPower)
             sqrtD == FDiv(FAdd(ZAlpha(alpha), zBeta), FAbs(logHR))
         IN  FCeil(FDiv(FMul(sqrtD, sqrtD), FSub(One, SanitizeR2(covariateR2))))

calculateCoxRequiredEvents(hazardRatio, targetPower, alpha, covariateR2) ==
    IF FLe(hazardRatio, One) \/ FLe(targetPower, 0) \/ FGe(targetPower, One)
       \/ FLe(alpha, 0) \/ FGe(alpha, One)
    THEN Infinity
    ELSE LET logHR == FLog(hazardRatio)
             zBeta == normalQuantile(targetPower)
             sqrtD == FDiv(FAdd(ZAlpha(alpha), zBeta), FAbs(logHR))
         IN  FCeil(FDiv(FMul(sqrtD, sqrtD), FSub(One, SanitizeR2(covariateR2))))

\* ---- Linear ----
calculateLinearSE(sampleSize, residualSD, covariateR2) ==
    IF FLe(sampleSize, 2 * S) THEN Infinity
    ELSE FDiv(residualSD,
              FSqrt(FMul(FSub(sampleSize, 2 * S),
                         FSub(One, SanitizeR2(covariateR2)))))

calculateLinearPower(beta, sampleSize, residualSD, alpha, covariateR2) ==
    IF FLe(sampleSize, 2 * S) \/ FLe(residualSD, 0) \/ FLe(alpha, 0) \/ FGe(alpha, One)
    THEN 0
    ELSE LET se == calculateLinearSE(sampleSize, residualSD, covariateR2)
             lambda == FDiv(FAbs(beta), se)
         IN  TwoSidedPower(lambda, ZAlpha(alpha))

\* Power from Cohen's f2 = r2 / (1 - r2): the upper tail alone, clamped to [0, 1]
calculateLinearPowerFromR2(r2, sampleSize, alpha) ==
    IF FLe(sampleSize, 2 * S) \/ FLe(r2, 0) \/ FGe(r2, One)
       \/ FLe(alpha, 0) \/ FGe(alpha, One)
    THEN 0
    ELSE LET f2 == FDiv(r2, FSub(One, r2))
             lambda == FMul(f2, sampleSize)
         IN  FMin(FMax(normalCDF(FSub(FSqrt(lambda), ZAlpha(alpha))), 0), One)

calculateLinearMinEffect(targetPower, sampleSize, residualSD, alpha, covariateR2) ==
    IF FLe(sampleSize, 2 * S) \/ FLe(residualSD, 0) \/ FLe(alpha, 0) \/ FGe(alpha, One)
       \/ FLe(targetPower, 0) \/ FGe(targetPower, One)
    THEN Infinity
    ELSE LET se == calculateLinearSE(sampleSize, residualSD, covariateR2)
             zBeta == normalQuantile(targetPower)
         IN  FMul(FAdd(ZAlpha(alpha), zBeta), se)

calculateLinearRequiredN(beta, targetPower, residualSD, alpha, covariateR2) ==
    IF FEq(beta, 0) \/ FLe(residualSD, 0) \/ FLe(targetPower, 0) \/ FGe(targetPower, One)
       \/ FLe(alpha, 0) \/ FGe(alpha, One)
    THEN Infinity
    ELSE LET zBeta == normalQuantile(targetPower)
             ratio == FDiv(FMul(FAdd(ZAlpha(alpha), zBeta), residualSD), FAbs(beta))
             n == FAdd(FDiv(FMul(ratio, ratio), FSub(One, SanitizeR2(covariateR2))),
                       2 * S)
         IN  FCeil(n)

\* ---- Logistic ----
calculateLogisticSE(sampleSize, prevalence, covariateR2) ==
    IF FLe(sampleSize, 0) \/ FLe(prevalence, 0) \/ FGe(prevalence, One) THEN Infinity
    ELSE FDiv(One,
              FSqrt(FMul(FMul(FMul(sampleSize, prevalence), FSub(One, prevalence)),
                         FSub(One, SanitizeR2(covariateR2)))))

calculateLogisticCaseControlSE(cases, controls, covariateR2) ==
    IF FLe(cases, 0) \/ FLe(controls, 0) THEN Infinity
    ELSE FSqrt(FDiv(FAdd(FDiv(One, cases), FDiv(One, controls)),
                    FSub(One, SanitizeR2(covariateR2))))

calculateLogisticPower(oddsRatio, sampleSize, prevalence, alpha, caseControl, covariateR2) ==
    IF FLe(oddsRatio, 0) \/ FLe(alpha, 0) \/ FGe(alpha, One) THEN 0
    ELSE LET logOR == FLog(oddsRatio)
             se == IF caseControl.given
                   THEN calculateLogisticCaseControlSE(caseControl.a, caseControl.b,
                                                       covariateR2)
                   ELSE calculateLogisticSE(sampleSize, prevalence, covariateR2)
             lambda == FDiv(FAbs(logOR), se)
         IN  IF FEq(se, Infinity) THEN 0
             ELSE TwoSidedPower(lambda, ZAlpha(alpha))

calculateLogisticMinEffect(targetPower, sampleSize, prevalence, alpha, caseControl, covariateR2) ==
    IF FLe(alpha, 0) \/ FGe(alpha, One) \/ FLe(targetPower, 0) \/ FGe(targetPower, One)
    THEN Infinity
    ELSE LET se == IF caseControl.given
                   THEN calculateLogisticCaseControlSE(caseControl.a, caseControl.b,
                                                       covariateR2)
                   ELSE calculateLogisticSE(sampleSize, prevalence, covariateR2)
             zBeta == normalQuantile(targetPower)
             minLogOR == FMul(FAdd(ZAlpha(alpha), zBeta), se)
         IN  IF FEq(se, Infinity) THEN Infinity
             ELSE FExp(minLogOR)

calculateLogisticRequiredN(oddsRatio, targetPower, prevalence, alpha, covariateR2) ==
    IF FLe(oddsRatio, One) \/ FLe(prevalence, 0) \/ FGe(prevalence, One)
       \/ FLe(targetPower, 0) \/ FGe(targetPower, One)
       \/ FLe(alpha, 0) \/ FGe(alpha, One)
    THEN Infinity
    ELSE LET logOR == FLog(oddsRatio)
             zBeta == normalQuantile(targetPower)
             ratio == FDiv(FAdd(ZAlpha(alpha), zBeta), FAbs(logOR))
             n == FDiv(FMul(ratio, ratio),
                       FMul(FMul(prevalence, FSub(One, prevalence)),
                            FSub(One, SanitizeR2(covariateR2))))
         IN  FCeil(n)

\* ---- Poisson ----
\* Math.sqrt(1 / x) is evaluated as 1 / Math.sqrt(x): the same double to the
\* last place, and the form that keeps the model's resolution for large x
calculatePoissonSE(sampleSize, prevalence, covariateR2) ==
    IF FLe(sampleSize, 0) \/ FLe(prevalence, 0) \/ FGe(prevalence, One) THEN Infinity
    ELSE FDiv(One,
              FSqrt(FMul(FMul(sampleSize, prevalence),
                         FSub(One, SanitizeR2(covariateR2)))))

calculatePoissonPower(relativeRisk, sampleSize, prevalence, alpha, covariateR2) ==
    IF FLe(relativeRisk, 0) \/ FLe(sampleSize, 0) \/ FLe(prevalence, 0)
       \/ FGe(prevalence, One) \/ FLe(alpha, 0) \/ FGe(alpha, One)
    THEN 0
    ELSE LET logRR == FLog(relativeRisk)
             se == calculatePoissonSE(sampleSize, prevalence, covariateR2)
             lambda == FDiv(FAbs(logRR), se)
         IN  TwoSidedPower(lambda, ZAlpha(alpha))

calculatePoissonMinEffect(targetPower, sampleSize, prevalence, alpha, covariateR2) ==
    IF FLe(sampleSize, 0) \/ FLe(prevalence, 0) \/ FGe(prevalence, One)
       \/ FLe(alpha, 0) \/ FGe(alpha, One)
       \/ FLe(targetPower, 0) \/ FGe(targetPower, One)
    THEN Infinity
    ELSE LET se == calculatePoissonSE(sampleSize, prevalence, covariateR2)
             zBeta == normalQuantile(targetPower)
             minLogRR == FMul(FAdd(ZAlpha(alpha), zBeta), se)
         IN  FExp(minLogRR)

calculatePoissonRequiredN(relativeRisk, targetPower, prevalence, alpha, covariateR2) ==
    IF FLe(relativeRisk, One) \/ FLe(prevalence, 0) \/ FGe(prevalence, One)
       \/ FLe(targetPower, 0) \/ FGe(targetPower, One)
       \/ FLe(alpha, 0) \/ FGe(alpha, One)
    THEN Infinity
    ELSE LET logRR == FLog(relativeRisk)
             zBeta == normalQuantile(targetPower)
             ratio == FDiv(FAdd(ZAlpha(alpha), zBeta), FAbs(logRR))
             n == FDiv(FMul(ratio, ratio),
                       FMul(prevalence, FSub(One, SanitizeR2(covariateR2))))
         IN  FCeil(n)

\* ---- GEE ----
calculateDesignEffect(clusterSize, icc) ==
    IF FLe(clusterSize, 0) \/ FLt(icc, 0) \/ FGt(icc, One) THEN One
    ELSE FAdd(One, FMul(FSub(clusterSize, One), icc))

calculateEffectiveSampleSize(totalObservations, clusterSize, icc) ==
    FDiv(totalObservations, calculateDesignEffect(clusterSize, icc))

calculateGEE_SE(totalObservations, clusterSize, icc, residualSD, covariateR2) ==
    IF FLe(totalObservations, 2 * S) \/ FLe(clusterSize, 0) THEN Infinity
    ELSE LET de == calculateDesignEffect(clusterSize, icc)
         IN  FDiv(FMul(residualSD, FSqrt(de)),
                  FSqrt(FMul(FSub(totalObservations, 2 * S),
                             FSub(One, SanitizeR2(covariateR2)))))

calculateGEE_Power(beta, totalObservations, clusterSize, icc, residualSD, alpha, covariateR2) ==
    IF FLe(totalObservations, 2 * S) \/ FLe(clusterSize, 0) \/ FLe(residualSD, 0)
       \/ FLe(alpha, 0) \/ FGe(alpha, One) \/ FLt(icc, 0) \/ FGt(icc, One)
    THEN 0
    ELSE LET se == calculateGEE_SE(totalObservations, clusterSize, icc, residualSD,
                                   covariateR2)
             lambda == FDiv(FAbs(beta), se)
         IN  IF FEq(se, Infinity) THEN 0
             ELSE TwoSidedPower(lambda, ZAlpha(alpha))

calculateGEE_MinEffect(targetPower, totalObservations, clusterSize, icc, residualSD, alpha, covariateR2) ==
    IF FLe(totalObservations, 2 * S) \/ FLe(clusterSize, 0) \/ FLe(residualSD, 0)
       \/ FLe(alpha, 0) \/ FGe(alpha, One)
       \/ FLe(targetPower, 0) \/ FGe(targetPower, One)
       \/ FLt(icc, 0) \/ FGt(icc, One)
    THEN Infinity
    ELSE LET se == calculateGEE_SE(totalObservations, clusterSize, icc, residualSD,
                                   covariateR2)
             zBeta == normalQuantile(targetPower)
         IN  IF FEq(se, Infinity) THEN Infinity
             ELSE FMul(FAdd(ZAlpha(alpha), zBeta), se)

calculateGEE_RequiredN(beta, targetPower, clusterSize, icc, residualSD, alpha, covariateR2) ==
    IF FEq(beta, 0) \/ FLe(clusterSize, 0) \/ FLe(residualSD, 0)
       \/ FLe(targetPower, 0) \/ FGe(targetPower, One)
       \/ FLe(alpha, 0) \/ FGe(alpha, One)
       \/ FLt(icc, 0) \/ FGt(icc, One)
    THEN Infinity
    ELSE LET de == calculateDesignEffect(clusterSize, icc)
             zBeta == normalQuantile(targetPower)
             ratio == FDiv(FMul(FAdd(ZAlpha(alpha), zBeta), residualSD), FAbs(beta))
             nEff == FAdd(FDiv(FMul(ratio, ratio), FSub(One, SanitizeR2(covariateR2))),
                          2 * S)
             n == FMul(nEff, de)
         IN  FCeil(n)

calculateGEE_RequiredClusters(beta, targetPower, clusterSize, icc, residualSD, alpha, covariateR2) ==
    LET totalN == calculateGEE_RequiredN(beta, targetPower, clusterSize, icc,
                                         residualSD, alpha, covariateR2)
    IN  IF ~isFinite(totalN) THEN Infinity
        ELSE FCeil(FDiv(totalN, clusterSize))

\* ---- Unified interface ----
\* JavaScript's undefined, for an optional field of PowerParams that is not set
Undefined == MaxFinite + 3
\* Truthiness of an optional number: undefined, 0 and NaN are falsy
Truthy(x) == x # Undefined /\ x # 0 /\ ~IsNaN(x)
\* x || d
OrElse(x, d) == IF Truthy(x) THEN x ELSE d
\* a destructuring default: `{ x = d } = params`
DefaultTo(x, d) == IF x = Undefined THEN d ELSE x

calculatePower(params) ==
    LET analysisType == params.analysisType
        studyDesign == params.studyDesign
        effectSize == params.effectSize
        alpha == params.alpha
        covariateR2 == DefaultTo(params.covariateR2, 0)
    IN  CASE analysisType = "cox" ->
               IF studyDesign = "case-cohort" /\ Truthy(params.subcohortSize)
                  /\ Truthy(params.totalCohort)
               THEN calculateCoxPower(effectSize, OrElse(params.events, 0), alpha,
                                      Design(params.subcohortSize, params.totalCohort),
                                      covariateR2)
               ELSE calculateCoxPower(effectSize, OrElse(params.events, 0), alpha,
                                      NoDesign, covariateR2)
          [] analysisType = "linear" ->
               calculateLinearPower(effectSize, OrElse(params.sampleSize, 0),
                                    OrElse(params.residualSD, One), alpha, covariateR2)
          [] analysisType = "logistic" ->
               IF studyDesign = "case-control" /\ Truthy(params.cases)
                  /\ Truthy(params.controls)
               THEN calculateLogisticPower(effectSize, 0, 0, alpha,
                                           Design(params.cases, params.controls),
                                           covariateR2)
               ELSE calculateLogisticPower(effectSize, OrElse(params.sampleSize, 0),
                                           OrElse(params.prevalence, S \div 10), alpha,
                                           NoDesign, covariateR2)
          [] analysisType = "poisson" ->
               calculatePoissonPower(effectSize, OrElse(params.sampleSize, 0),
                                     OrElse(params.prevalence, S \div 10), alpha,
                                     covariateR2)
          [] analysisType = "gee" ->
               calculateGEE_Power(effectSize, OrElse(params.sampleSize, 0),
                                  OrElse(params.clusterSize, One),
                                  OrElse(params.icc, 0),
                                  OrElse(params.residualSD, One), alpha, covariateR2)
          [] OTHER -> 0

calculateMinEffect(params) ==
    LET analysisType == params.analysisType
        studyDesign == params.studyDesign
        targetPower == params.targetPower
        alpha == params.alpha
        covariateR2 == DefaultTo(params.covariateR2, 0)
    IN  CASE analysisType = "cox" ->
               IF studyDesign = "case-cohort" /\ Truthy(params.subcohortSize)
                  /\ Truthy(params.totalCohort)
               THEN calculateCoxMinEffect(targetPower, OrElse(params.events, 0), alpha,
                                          Design(params.subcohortSize,
                                                 params.totalCohort),
                                          covariateR2)
               ELSE calculateCoxMinEffect(targetPower, OrElse(params.events, 0), alpha,
                                          NoDesign, covariateR2)
          [] analysisType = "linear" ->
               calculateLinearMinEffect(targetPower, OrElse(params.sampleSize, 0),
                                        OrElse(params.residualSD, One), alpha,
                                        covariateR2)
          [] analysisType = "logistic" ->
               IF studyDesign = "case-control" /\ Truthy(params.cases)
                  /\ Truthy(params.controls)
               THEN calculateLogisticMinEffect(targetPower, 0, 0, alpha,
                                               Design(params.cases, params.controls),
                                               covariateR2)
               ELSE calculateLogisticMinEffect(targetPower,
                                               OrElse(params.sampleSize, 0),
                                               OrElse(params.prevalence, S \div 10),
                                               alpha, NoDesign, covariateR2)
          [] analysisType = "poisson" ->
               calculatePoissonMinEffect(targetPower, OrElse(params.sampleSize, 0),
                                         OrElse(params.prevalence, S \div 10), alpha,
                                         covariateR2)
          [] analysisType = "gee" ->
               calculateGEE_MinEffect(targetPower, OrElse(params.sampleSize, 0),
                                      OrElse(params.clusterSize, One),
                                      OrElse(params.icc, 0),
                                      OrElse(params.residualSD, One), alpha,
                                      covariateR2)
          [] OTHER -> Infinity

(***************************************************************************)
(* Two-stage discovery / replication design                                *)
(***************************************************************************)
\* Math.round(x * k) / k, for step = 1 / k
RoundToStep(x, step) ==
    IF ~isFinite(x) THEN x ELSE ((x + (step \div 2)) \div step) * step

\* A study design left out of the study parameters
NoStudyDesign == "undefined"

calculateStage1Alpha(stage1FDR, stage1Proteins) ==
    calculateEffectiveAlpha(stage1FDR, stage1Proteins, "fdr")

\* The bundle both stages and the single-stage comparison start from
Stage1PowerParams(effectSize, analysisType, stage1Alpha, stage1SampleSize, studyParams) ==
    [analysisType |-> analysisType,
     studyDesign |-> IF studyParams.studyDesign = NoStudyDesign THEN "cohort"
                     ELSE studyParams.studyDesign,
     effectSize |-> effectSize, targetPower |-> Undefined,
     alpha |-> stage1Alpha, sampleSize |-> stage1SampleSize,
     events |-> studyParams.events,
     residualSD |-> OrElse(studyParams.residualSD, One),
     prevalence |-> studyParams.prevalence,
     cases |-> studyParams.cases, controls |-> studyParams.controls,
     subcohortSize |-> Undefined, totalCohort |-> Undefined,
     clusterSize |-> studyParams.clusterSize, icc |-> studyParams.icc,
     covariateR2 |-> Undefined]

\* Expected true positives plus expected false positives after stage 1
ExpectedAdvancing(stage1Power, stage1Alpha, stage1Proteins, expectedHits) ==
    LET expectedTruePositives == FMul(expectedHits, stage1Power)
        nullProteins == FSub(stage1Proteins, expectedHits)
        expectedFalsePositives == FMul(nullProteins, stage1Alpha)
    IN  FAdd(expectedTruePositives, expectedFalsePositives)

\* A variant that divides by the count rounded to one decimal, as reported
Stage2PerProteinAlphaRounded(stage2Alpha, expectedAdvancing) ==
    IF FGt(RoundToStep(expectedAdvancing, S \div 10), One)
    THEN FDiv(stage2Alpha, FMax(One, FCeil(RoundToStep(expectedAdvancing, S \div 10))))
    ELSE stage2Alpha

\* Bonferroni over the proteins expected to advance
Stage2PerProteinAlpha(stage2Alpha, expectedAdvancing) ==
    IF FGt(expectedAdvancing, One)
    THEN FDiv(stage2Alpha, FMax(One, FCeil(expectedAdvancing)))
    ELSE stage2Alpha

\* The value of a `const` declaration: the one element of a singleton set
The(set) == CHOOSE x \in set : TRUE

\* A variant that reports the replication power alone as the joint power
TwoStageResultReplicationOnly(stage1Power, stage1Alpha, stage2Power, expectedAdvancing, stage2PerProteinAlpha, singleStagePower, totalSampleSize) ==
    [stage1Power |-> stage1Power,
     stage1Alpha |-> stage1Alpha,
     stage2Power |-> stage2Power,
     jointPower |-> stage2Power,
     expectedAdvancing |-> RoundToStep(expectedAdvancing, S \div 10),
     stage2PerProteinAlpha |-> stage2PerProteinAlpha,
     costEfficiency |-> RoundToStep(One, S \div 100),
     totalSampleSize |-> FCeil(totalSampleSize)]

\* A variant that reports the single-stage power over the joint power
TwoStageResultInverseEfficiency(stage1Power, stage1Alpha, stage2Power, expectedAdvancing, stage2PerProteinAlpha, singleStagePower, totalSampleSize) ==
    [stage1Power |-> stage1Power,
     stage1Alpha |-> stage1Alpha,
     stage2Power |-> stage2Power,
     jointPower |-> FMul(stage1Power, stage2Power),
     expectedAdvancing |-> RoundToStep(expectedAdvancing, S \div 10),
     stage2PerProteinAlpha |-> stage2PerProteinAlpha,
     costEfficiency |->
         RoundToStep(IF FGt(FMul(stage1Power, stage2Power), 0)
                     THEN FDiv(singleStagePower, FMul(stage1Power, stage2Power))
                     ELSE One, S \div 100),
     totalSampleSize |-> FCeil(totalSampleSize)]

\* The returned TwoStageResult, from the three powers the function computes
TwoStageResult(stage1Power, stage1Alpha, stage2Power, expectedAdvancing, stage2PerProteinAlpha, singleStagePower, totalSampleSize) ==
    LET jointPower == FMul(stage1Power, stage2Power)
        costEfficiency ==
            IF FGt(singleStagePower, 0) THEN FDiv(jointPower, singleStagePower) ELSE One
    IN  [stage1Power |-> stage1Power,
         stage1Alpha |-> stage1Alpha,
         stage2Power |-> stage2Power,
         jointPower |-> jointPower,
         expectedAdvancing |-> RoundToStep(expectedAdvancing, S \div 10),
         stage2PerProteinAlpha |-> stage2PerProteinAlpha,
         costEfficiency |-> RoundToStep(costEfficiency, S \div 100),
         totalSampleSize |-> FCeil(totalSampleSize)]

calculateTwoStagePower(effectSize, analysisType, params, studyParams) ==
    LET stage1Proteins == params.stage1Proteins
        stage1SampleSize == params.stage1SampleSize
        stage2SampleSize == params.stage2SampleSize
        stage2Alpha == params.stage2Alpha
        expectedHits == DefaultTo(params.expectedHits, 10 * S)
        sampleOverlap == DefaultTo(params.sampleOverlap, 0)
        effectiveStage2Size ==
            IF FGt(sampleOverlap, 0)
            THEN FMul(stage2SampleSize, FSub(One, FMul(sampleOverlap, S \div 2)))
            ELSE stage2SampleSize
        totalSampleSize ==
            IF FGt(sampleOverlap, 0)
            THEN FAdd(stage1SampleSize, FMul(stage2SampleSize, FSub(One, sampleOverlap)))
            ELSE FAdd(stage1SampleSize, stage2SampleSize)
        singleStageAlpha == calculateEffectiveAlpha(S \div 20, stage1Proteins, "fdr")
    IN  The({
        The({
        The({
        The({
        The({
        The({
            TwoStageResult(stage1Power, stage1Alpha, stage2Power, expectedAdvancing,
                           stage2PerProteinAlpha, singleStagePower, totalSampleSize)
            : singleStagePower \in
                {calculatePower([stage1PowerParams EXCEPT
                                    !.alpha = singleStageAlpha,
                                    !.sampleSize = totalSampleSize])} })
            : stage2Power \in
                {calculatePower([stage1PowerParams EXCEPT
                                    !.alpha = stage2PerProteinAlpha,
                                    !.sampleSize = effectiveStage2Size])} })
            : stage2PerProteinAlpha \in
                {Stage2PerProteinAlpha(stage2Alpha, expectedAdvancing)} })
            : expectedAdvancing \in
                {ExpectedAdvancing(stage1Power, stage1Alpha, stage1Proteins,
                                   expectedHits)} })
            : stage1Power \in {calculatePower(stage1PowerParams)} })
            : stage1Alpha \in {calculateStage1Alpha(params.stage1FDR, stage1Proteins)},
              stage1PowerParams \in
                {Stage1PowerParams(effectSize, analysisType,
                     calculateStage1Alpha(params.stage1FDR, stage1Proteins),
                     stage1SampleSize, studyParams)} })

\* A variant that keeps the earlier entry on a tie
RECURSIVE ReduceFirstBest(_, _)
ReduceFirstBest(results, k) ==
    IF k = 1 THEN results[1]
    ELSE The({IF FGe(a.jointPower, results[k].jointPower) THEN a ELSE results[k]
              : a \in {ReduceFirstBest(results, k - 1)}})

\* A variant that keeps the later entry whenever the earlier one is larger
RECURSIVE ReduceWorst(_, _)
ReduceWorst(results, k) ==
    IF k = 1 THEN results[1]
    ELSE The({IF FLt(a.jointPower, results[k].jointPower) THEN a ELSE results[k]
              : a \in {ReduceWorst(results, k - 1)}})

\* results.reduce((a, b) => a.jointPower > b.jointPower ? a : b), up to element k
RECURSIVE ReduceBest(_, _)
ReduceBest(results, k) ==
    IF k = 1 THEN results[1]
    ELSE The({IF FGt(a.jointPower, results[k].jointPower) THEN a ELSE results[k]
              : a \in {ReduceBest(results, k - 1)}})

findOptimalStage1FDR(effectSize, analysisType, baseParams, studyParams, fdrGrid) ==
    The({The({[optimalFDR |-> best.fdr, maxJointPower |-> best.jointPower,
               results |-> results]
              : best \in {ReduceBest(results, Len(results))}})
         : results \in
             {[k \in 1..Len(fdrGrid) |->
                 [fdr |-> fdrGrid[k],
                  jointPower |->
                      calculateTwoStagePower(effectSize, analysisType,
                          [baseParams EXCEPT !.stage1FDR = fdrGrid[k]],
                          studyParams).jointPower]]}})

(***************************************************************************)
(* The application's own dispatcher (App.tsx): closures over the state of  *)
(* the App component, here the record app.                                 *)
(***************************************************************************)
\* calculatePowerForEffect(effect, alpha)
calculatePowerForEffect(app, effect, alpha) ==
    CASE app.analysisType = "cox" ->
           IF app.studyDesign = "case-cohort"
           THEN calculateCoxPower(effect, app.events, alpha,
                                  Design(app.subcohortSize, app.totalCohort), 0)
           ELSE calculateCoxPower(effect, app.events, alpha, NoDesign, 0)
      [] app.analysisType = "linear" ->
           calculateLinearPower(effect, app.sampleSize, app.residualSD, alpha, 0)
      [] app.analysisType = "logistic" ->
           IF app.studyDesign = "case-control"
              \/ app.studyDesign = "nested-case-control"
           THEN calculateLogisticPower(effect, 0, 0, alpha,
                                       Design(app.numCases, app.numControls), 0)
           ELSE calculateLogisticPower(effect, app.sampleSize, app.prevalence,
                                       alpha, NoDesign, 0)
      [] app.analysisType = "poisson" ->
           calculatePoissonPower(effect, app.sampleSize, app.prevalence, alpha, 0)
      [] app.analysisType = "gee" ->
           calculateGEE_Power(effect, app.sampleSize, app.clusterSize, app.icc,
                              app.residualSD, alpha, 0)
      [] OTHER -> 0

\* calculateMinEffectForAlpha(alpha)
calculateMinEffectForAlpha(app, alpha) ==
    CASE app.analysisType = "cox" ->
           IF app.studyDesign = "case-cohort"
           THEN calculateCoxMinEffect(app.targetPower, app.events, alpha,
                                      Design(app.subcohortSize, app.totalCohort), 0)
           ELSE calculateCoxMinEffect(app.targetPower, app.events, alpha,
                                      NoDesign, 0)
      [] app.analysisType = "linear" ->
           calculateLinearMinEffect(app.targetPower, app.sampleSize,
                                    app.residualSD, alpha, 0)
      [] app.analysisType = "logistic" ->
           IF app.studyDesign = "case-control"
              \/ app.studyDesign = "nested-case-control"
           THEN calculateLogisticMinEffect(app.targetPower, 0, 0, alpha,
                                           Design(app.numCases, app.numControls), 0)
           ELSE calculateLogisticMinEffect(app.targetPower, app.sampleSize,
                                           app.prevalence, alpha, NoDesign, 0)
      [] app.analysisType = "poisson" ->
           calculatePoissonMinEffect(app.targetPower, app.sampleSize,
                                     app.prevalence, alpha, 0)
      [] app.analysisType = "gee" ->
           calculateGEE_MinEffect(app.targetPower, app.sampleSize, app.clusterSize,
                                  app.icc, app.residualSD, alpha, 0)
      [] OTHER -> Infinity

\* the standardError the application displays
standardError(app) ==
    CASE app.analysisType = "cox" ->
           IF app.studyDesign = "case-cohort"
           THEN calculateCoxCaseCohortSE(app.events, app.subcohortSize,
                                         app.totalCohort, 0)
           ELSE IF app.studyDesign = "nested-case-control"
           THEN FMul(calculateCoxSE(app.events, 0),
                     FSqrt(FAdd(One, FDiv(One, app.matchingRatio))))
           ELSE calculateCoxSE(app.events, 0)
      [] app.analysisType = "linear" ->
           calculateLinearSE(app.sampleSize, app.residualSD, 0)
      [] app.analysisType = "logistic" ->
           IF app.studyDesign = "case-control"
              \/ app.studyDesign = "nested-case-control"
           THEN calculateLogisticCaseControlSE(app.numCases, app.numControls, 0)
           ELSE calculateLogisticSE(app.sampleSize, app.prevalence, 0)
      [] app.analysisType = "poisson" ->
           calculatePoissonSE(app.sampleSize, app.prevalence, 0)
      [] app.analysisType = "gee" ->
           calculateGEE_SE(app.sampleSize, app.clusterSize, app.icc,
                           app.residualSD, 0)
      [] OTHER -> 0

\* ---- Legacy power curve ----
\* Number(x.toFixed(4))
ToFixed4(x) == RoundToStep(x, S \div 10000)

\* numPoints points from hrMin in steps of (hrMax - hrMin) / (numPoints - 1):
\* the hazard ratio to 4 decimals, and the Cox power at the unrounded one
generatePowerCurve(events, alpha, hrMin, hrMax, numPoints) ==
    The({[k \in 1..numPoints |->
            The({[hr |-> ToFixed4(hr),
                  power |-> calculateCoxPower(hr, events, alpha, NoDesign, 0)]
                 : hr \in {FAdd(hrMin, FMul((k - 1) * S, step))}})]
         : step \in {FDiv(FSub(hrMax, hrMin), (numPoints - 1) * S)}})

(***************************************************************************)
(* Comparison mode of the App component: the list of protein-count         *)
(* scenarios and the text of the input that adds to it                     *)
(***************************************************************************)
\* The most scenarios the Add button and the presets allow
MaxScenarios == 6
\* The largest protein count addProteinCount accepts
MaxProteinCount == 100000

\* The characters a text is made of: a text is a sequence of them
IsDigit(c) == c \in {"0", "1", "2", "3", "4", "5", "6", "7", "8", "9"}
DigitValue(c) ==
    CHOOSE d \in 0..9 : <<"0", "1", "2", "3", "4", "5", "6", "7", "8", "9">>[d + 1] = c

\* The number the digits of text from position k on spell, after acc
RECURSIVE ParseDigits(_, _, _)
ParseDigits(text, k, acc) ==
    IF k > Len(text) \/ ~IsDigit(text[k]) THEN acc
    ELSE ParseDigits(text, k + 1, 10 * acc + DigitValue(text[k]))

\* parseInt(text): an optional sign and the longest run of digits after it;
\* NaN when there is no digit there
parseInt(text) ==
    LET start == IF Len(text) > 0 /\ text[1] \in {"-", "+"} THEN 2 ELSE 1
    IN  IF start > Len(text) \/ ~IsDigit(text[start]) THEN NaN
        ELSE IF text[1] = "-" THEN 0 - ParseDigits(text, start, 0)
        ELSE ParseDigits(text, start, 0)

\* list.includes(n)
Includes(list, n) == \E k \in 1..Len(list) : list[k] = n

\* list with n put before the first entry that a - b > 0 places after it
RECURSIVE InsertAscending(_, _)
InsertAscending(list, n) ==
    IF list = <<>> THEN <<n>>
    ELSE IF Head(list) > n THEN <<n>> \o list
    ELSE <<Head(list)>> \o InsertAscending(Tail(list), n)

\* list.sort((a, b) => a - b)
RECURSIVE SortAscending(_)
SortAscending(list) ==
    IF list = <<>> THEN <<>>
    ELSE InsertAscending(SortAscending(SubSeq(list, 1, Len(list) - 1)), list[Len(list)])

\* list.filter(c => c !== count)
Without(list, count) == SelectSeq(list, LAMBDA c : c # count)

\* A variant that accepts a count the list already holds
AddAcceptsDuplicates(list, text) ==
    /\ ~IsNaN(parseInt(text))
    /\ parseInt(text) >= 1
    /\ parseInt(text) <= MaxProteinCount

\* The condition under which addProteinCount changes the list
AddAccepts(list, text) ==
    /\ ~IsNaN(parseInt(text))
    /\ parseInt(text) >= 1
    /\ parseInt(text) <= MaxProteinCount
    /\ ~Includes(list, parseInt(text))

\* The quick-add buttons shown: the first five presets not in the list
QuickAddPresets == <<1, 50, 100, 500, 1000, 3000, 5000, 7000>>
ShownPresets(list) ==
    LET absent == SelectSeq(QuickAddPresets, LAMBDA n : ~Includes(list, n))
    IN  SubSeq(absent, 1, IF Len(absent) < 5 THEN Len(absent) ELSE 5)

(***************************************************************************)
(* The engine as a state machine: it is stateless, so the state is the     *)
(* last call made into it: the function called, its arguments and the      *)
(* value returned.  The one loop that is followed step by step is the      *)
(* bisection of calculateRequiredStage2Size, with its local variables.     *)
(***************************************************************************)
VARIABLES
    pc,     \* "idle" before a call, "searching" in the bisection, "returned" after
    fn,     \* name of the engine function called
    args,   \* its arguments
    out,    \* the value it returned
    low,    \* lower end of the bisection bracket
    high,   \* upper end of the bisection bracket
    i,      \* loop counter of the bisection
    evaluations,  \* calls of calculateTwoStagePower the bisection has made
    comparisonMode,   \* whether the App compares several protein counts
    proteinCounts,    \* the protein counts compared
    newProteinCount   \* the text of the input that adds a protein count

engineVars == <<pc, fn, args, out, low, high, i, evaluations>>
appVars == <<comparisonMode, proteinCounts, newProteinCount>>
vars == <<pc, fn, args, out, low, high, i, evaluations,
          comparisonMode, proteinCounts, newProteinCount>>

\* Sample sizes and event counts are drawn from 0, 2, 10000 and 25 * 2^k, k up to
MaxDoublings == 2
\* Test counts are drawn from -1 .. MaxTests and 1000
MaxTests == 6

SampleSizes == {0, 2 * S, 10000 * S} \cup {25 * (2 ^ k) * S : k \in 0..MaxDoublings}
\* 0 (invalid), 0.5, 0.8, 1 (null), 1.25, 2 and 100 (extreme)
RatioEffects == {0, S \div 2, (4 * S) \div 5, S, (5 * S) \div 4, 2 * S, 100 * S}
\* -0.5, 0 (null), 0.3, 0.5
BetaEffects == {0 - (S \div 2), 0, (3 * S) \div 10, S \div 2}
\* 0 and 1 (invalid), the smallest representable alpha, 0.01, 0.05
Alphas == {0, 1, S \div 100, S \div 20, S}
\* Significance levels as any `number`: NaN included
AnyAlphas == Alphas \cup {NaN}
\* Variance explained by the predictor
R2s == {0, S \div 10, S \div 2, S}
\* 0 and 1 (invalid), 0.02, 0.8, 0.9
TargetPowers == {0, S \div 50, (4 * S) \div 5, (9 * S) \div 10, S}
CovariateR2s == {0, S \div 5}
\* also values outside [0, 1), which the calculators replace by 0
AnyCovariateR2s == CovariateR2s \cup {0 - (S \div 10), S, (3 * S) \div 2}
Prevalences == {0, S \div 100, S \div 10, S \div 2, S - (S \div 100), S}
\* the prevalences for which the required sample sizes stay below MaxFinite
RequiredPrevalences == {0, S \div 10, S \div 2, S}
ResidualSDs == {0, S, 2 * S}
ClusterSizes == {0, S, 5 * S}
ICCs == {0 - (S \div 10), 0, S \div 2, (3 * S) \div 2}
\* <<clusterSize, icc>>: an invalid size, no clustering, DE = 3, an invalid icc
Clusterings == {<<0, 0>>, <<S, 0>>, <<5 * S, S \div 2>>, <<5 * S, (3 * S) \div 2>>}
CaseCohorts ==
    {NoDesign, Design(100 * S, 1000 * S), Design(0, 1000 * S), Design(100 * S, 0),
     Design(1000 * S, 500 * S)}
CaseControls == {NoDesign, Design(100 * S, 200 * S), Design(0, 100 * S)}
Thresholds == {0, S \div 20, S \div 10, S \div 5, S \div 2, S}
TestCounts == ((0 - 1)..MaxTests) \cup {1000}
Methods == {"fdr", "bonferroni"}

\* PowerParams bundles for the unified interface.  The optional fields are
\* set in groups: the size (events and sampleSize), the design pair (cases and
\* controls, subcohortSize and totalCohort), the model extras (residualSD,
\* prevalence, clusterSize, icc) and covariateR2.
AnalysisTypes == {"cox", "linear", "logistic", "poisson", "gee", "unknown"}
StudyDesigns == {"cohort", "case-control", "case-cohort", "nested-case-control"}
OptSizes == {Undefined, 0, 100 * S}
OptPairs == {<<Undefined, Undefined>>, <<100 * S, 0>>, <<100 * S, 200 * S>>}
\* <<residualSD, prevalence, clusterSize, icc>>
OptExtras == {<<Undefined, Undefined, Undefined, Undefined>>,
              <<0, 0, 0, 0>>,
              <<2 * S, S \div 2, 5 * S, S \div 2>>}
OptCovariateR2s == {Undefined, S \div 5}
UnifiedEffects == {S \div 2, S, 2 * S, 100 * S}
UnifiedAlphas == {1, S \div 20}
UnifiedTargetPowers == {(4 * S) \div 5, S}

PowerParams(type, design, effect, tp, al, size, pair, ex, r2) ==
    [analysisType |-> type, studyDesign |-> design, effectSize |-> effect,
     targetPower |-> tp, alpha |-> al, events |-> size, sampleSize |-> size,
     residualSD |-> ex[1], prevalence |-> ex[2], cases |-> pair[1],
     controls |-> pair[2], subcohortSize |-> pair[1], totalCohort |-> pair[2],
     clusterSize |-> ex[3], icc |-> ex[4], covariateR2 |-> r2]

NoParams ==
    PowerParams("unknown", "cohort", Undefined, Undefined, Undefined, Undefined,
                <<Undefined, Undefined>>,
                <<Undefined, Undefined, Undefined, Undefined>>, Undefined)

\* Candidate stage-1 FDR grids hold up to this many thresholds
MaxGridLength == 2

\* Iteration cap of the stage-2 size bisection when the caller gives none
DefaultMaxIterations == 50

\* <<studyDesign, events, residualSD, prevalence, cases, controls, clusterSize, icc>>
StudyParams(design, events, residualSD, prevalence, cases, controls, clusterSize, icc) ==
    [studyDesign |-> design, events |-> events, residualSD |-> residualSD,
     prevalence |-> prevalence, cases |-> cases, controls |-> controls,
     clusterSize |-> clusterSize, icc |-> icc,
     subcohortSize |-> Undefined, totalCohort |-> Undefined,
     covariateR2 |-> Undefined]

NoStudy ==
    StudyParams(NoStudyDesign, Undefined, Undefined, Undefined, Undefined, Undefined,
                Undefined, Undefined)

Studies ==
    {NoStudy,
     [StudyParams("cohort", 100 * S, 2 * S, S \div 5, Undefined, Undefined, 5 * S,
                  S \div 10) EXCEPT !.covariateR2 = S \div 2],
     StudyParams("case-control", 50 * S, Undefined, Undefined, 100 * S, 200 * S,
                 Undefined, Undefined),
     [StudyParams("case-cohort", 400 * S, Undefined, S \div 2, Undefined, Undefined,
                  Undefined, Undefined) EXCEPT !.subcohortSize = 100 * S,
                                               !.totalCohort = 1000 * S]}

TwoStageParams(proteins, n1, n2, fdr, alpha2, hits, overlap) ==
    [stage1Proteins |-> proteins, stage1SampleSize |-> n1, stage2SampleSize |-> n2,
     stage1FDR |-> fdr, stage2Alpha |-> alpha2, expectedHits |-> hits,
     sampleOverlap |-> overlap]

NoStage == TwoStageParams(0, 0, 0, 0, 0, Undefined, Undefined)

TwoStageEffects == {(3 * S) \div 10, (5 * S) \div 4, 2 * S}
Stage1Proteins == {5 * S, 100 * S, 1000 * S}
Stage1SampleSizes == {0, 200 * S, 1000 * S}
Stage2SampleSizes == {100 * S, 500 * S}
Stage1FDRs == {S \div 20, S \div 10, S \div 2}
Stage2Alphas == {0 - (S \div 20), S \div 20}
ExpectedHits == {Undefined, 2 * S}
SampleOverlaps == {Undefined, S \div 2}

\* Non-empty grids of candidate thresholds
FDRGrids == UNION {[1..n -> Stage1FDRs] : n \in 1..MaxGridLength}

SearchEffects == {(5 * S) \div 4, 2 * S}
SearchStage1SampleSizes == {0, 1000 * S}
TargetJointPowers == {S \div 2, (4 * S) \div 5, (99 * S) \div 100}
IterationCaps == {0, 3, DefaultMaxIterations}

\* The state of the App component its dispatcher reads
AppState(type, design, events, ratio, cases, controls) ==
    [analysisType |-> type, studyDesign |-> design, sampleSize |-> 1000 * S,
     targetPower |-> (4 * S) \div 5, events |-> events,
     subcohortSize |-> 500 * S, totalCohort |-> 5000 * S,
     matchingRatio |-> ratio, residualSD |-> One, prevalence |-> S \div 10,
     numCases |-> cases, numControls |-> controls, clusterSize |-> 5 * S,
     icc |-> S \div 20]

\* The state of the App component after construction
InitialApp == AppState("cox", "cohort", 70 * S, 4 * S, 200 * S, 400 * S)

\* STUDY_DESIGN_OPTIONS: the study designs offered for each analysis type
STUDY_DESIGN_OPTIONS ==
    [cox |-> {"cohort", "case-cohort", "nested-case-control"},
     linear |-> {"cohort", "cross-sectional"},
     logistic |-> {"cohort", "case-control", "cross-sectional",
                   "nested-case-control"},
     poisson |-> {"cohort", "cross-sectional"},
     gee |-> {"cohort", "cross-sectional"}]

AppEvents == {70 * S, 200 * S}
MatchingRatios == {S, 4 * S}
AppCaseControls == {<<200 * S, 400 * S>>, <<100 * S, 100 * S>>}
AppStates ==
    {AppState(type, design, events, ratio, pair[1], pair[2]) :
        type \in DOMAIN STUDY_DESIGN_OPTIONS,
        design \in UNION {STUDY_DESIGN_OPTIONS[t] : t \in DOMAIN STUDY_DESIGN_OPTIONS},
        events \in AppEvents, ratio \in MatchingRatios, pair \in AppCaseControls}
AppEffects == {S \div 2, (6 * S) \div 5, 2 * S}
AppAlphas == {1, S \div 20}

\* Texts the number input can hold: empty, 0, 7, 12.5, 1e3, 3000, 100000,
\* 100001 and -5
InputTexts ==
    {<<>>, <<"0">>, <<"7">>, <<"1", "2", ".", "5">>, <<"1", "e", "3">>,
     <<"3", "0", "0", "0">>, <<"1", "0", "0", "0", "0", "0">>,
     <<"1", "0", "0", "0", "0", "1">>, <<"-", "5">>}
\* Power curves have up to this many points
MaxPoints == 5
\* 0 (invalid) and 100 events
CurveEvents == {0, 100 * S}
\* Ranges <<hrMin, hrMax>>: 1 to 3 (the default), 0.5 to 2, 1 to 1.0001, 2 to 2
CurveRanges == {<<S, 3 * S>>, <<S \div 2, 2 * S>>, <<S, S + (S \div 10000)>>,
                <<2 * S, 2 * S>>}
\* Arguments a call does not take are left at 0
NoArgs ==
    [params |-> NoParams, effect |-> 0, n |-> 0, alpha |-> 0, targetPower |-> 0, residualSD |-> 0,
     prevalence |-> 0, clusterSize |-> 0, icc |-> 0, covariateR2 |-> 0,
     design |-> NoDesign, threshold |-> 0, numTests |-> 0, method |-> "fdr",
     analysisType |-> "unknown", stage |-> NoStage, study |-> NoStudy,
     fdrGrid |-> <<>>, maxIterations |-> 0, app |-> InitialApp,
     hrMin |-> 0, hrMax |-> 0, numPoints |-> 0]

Init ==
    /\ pc = "idle" /\ fn = "none" /\ args = NoArgs /\ out = 0
    /\ low = 0 /\ high = 0 /\ i = 0 /\ evaluations = 0
    /\ comparisonMode = FALSE
    /\ proteinCounts = <<1, 5000>>
    /\ newProteinCount = <<>>

Returned(name, a, value) ==
    /\ pc' = "returned"
    /\ fn' = name
    /\ args' = a
    /\ out' = value
    /\ UNCHANGED <<low, high, i, evaluations, appVars>>

CallEffectiveAlpha ==
    /\ pc = "idle"
    /\ \E t \in Thresholds, m \in TestCounts, meth \in Methods :
        Returned("calculateEffectiveAlpha",
                [NoArgs EXCEPT !.threshold = t, !.numTests = m * S, !.method = meth],
                calculateEffectiveAlpha(t, m * S, meth))

CallCoxSE ==
    /\ pc = "idle"
    /\ \E d \in SampleSizes, r2 \in AnyCovariateR2s :
        Returned("calculateCoxSE",
                [NoArgs EXCEPT !.n = d, !.covariateR2 = r2],
                calculateCoxSE(d, r2))

CallCoxCaseCohortSE ==
    /\ pc = "idle"
    /\ \E d \in SampleSizes, cc \in CaseCohorts \ {NoDesign},
       r2 \in CovariateR2s \cup {(3 * S) \div 2} :
        Returned("calculateCoxCaseCohortSE",
                [NoArgs EXCEPT !.n = d, !.design = cc, !.covariateR2 = r2],
                calculateCoxCaseCohortSE(d, cc.a, cc.b, r2))

CallCoxPower ==
    /\ pc = "idle"
    /\ \E hr \in RatioEffects, d \in SampleSizes, al \in Alphas,
       cc \in CaseCohorts, r2 \in CovariateR2s \cup {(3 * S) \div 2} :
        Returned("calculateCoxPower",
                [NoArgs EXCEPT !.effect = hr, !.n = d, !.alpha = al,
                               !.design = cc, !.covariateR2 = r2],
                calculateCoxPower(hr, d, al, cc, r2))

CallCoxMinEffect ==
    /\ pc = "idle"
    /\ \E tp \in TargetPowers, d \in SampleSizes, al \in Alphas,
       cc \in CaseCohorts, r2 \in CovariateR2s :
        Returned("calculateCoxMinEffect",
                [NoArgs EXCEPT !.targetPower = tp, !.n = d, !.alpha = al,
                               !.design = cc, !.covariateR2 = r2],
                calculateCoxMinEffect(tp, d, al, cc, r2))

CallCoxRequiredEvents ==
    /\ pc = "idle"
    /\ \E hr \in RatioEffects, tp \in TargetPowers, al \in Alphas,
       r2 \in CovariateR2s \cup {(3 * S) \div 2} :
        Returned("calculateCoxRequiredEvents",
                [NoArgs EXCEPT !.effect = hr, !.targetPower = tp, !.alpha = al,
                               !.covariateR2 = r2],
                calculateCoxRequiredEvents(hr, tp, al, r2))

CallLinearSE ==
    /\ pc = "idle"
    /\ \E n \in SampleSizes, sd \in ResidualSDs, r2 \in AnyCovariateR2s :
        Returned("calculateLinearSE",
                [NoArgs EXCEPT !.n = n, !.residualSD = sd, !.covariateR2 = r2],
                calculateLinearSE(n, sd, r2))

CallLinearPower ==
    /\ pc = "idle"
    /\ \E b \in BetaEffects, n \in SampleSizes, sd \in ResidualSDs, al \in Alphas,
       r2 \in CovariateR2s :
        Returned("calculateLinearPower",
                [NoArgs EXCEPT !.effect = b, !.n = n, !.residualSD = sd,
                               !.alpha = al, !.covariateR2 = r2],
                calculateLinearPower(b, n, sd, al, r2))

CallLinearPowerFromR2 ==
    /\ pc = "idle"
    /\ \E r2 \in R2s, n \in SampleSizes, al \in AnyAlphas :
        Returned("calculateLinearPowerFromR2",
                [NoArgs EXCEPT !.effect = r2, !.n = n, !.alpha = al],
                calculateLinearPowerFromR2(r2, n, al))

CallLinearMinEffect ==
    /\ pc = "idle"
    /\ \E tp \in TargetPowers, n \in SampleSizes, sd \in ResidualSDs, al \in Alphas,
       r2 \in CovariateR2s :
        Returned("calculateLinearMinEffect",
                [NoArgs EXCEPT !.targetPower = tp, !.n = n, !.residualSD = sd,
                               !.alpha = al, !.covariateR2 = r2],
                calculateLinearMinEffect(tp, n, sd, al, r2))

CallLinearRequiredN ==
    /\ pc = "idle"
    /\ \E b \in BetaEffects, tp \in TargetPowers, sd \in ResidualSDs, al \in Alphas,
       r2 \in CovariateR2s \cup {(3 * S) \div 2} :
        Returned("calculateLinearRequiredN",
                [NoArgs EXCEPT !.effect = b, !.targetPower = tp, !.residualSD = sd,
                               !.alpha = al, !.covariateR2 = r2],
                calculateLinearRequiredN(b, tp, sd, al, r2))

CallLogisticSE ==
    /\ pc = "idle"
    /\ \E n \in SampleSizes, p \in Prevalences, r2 \in AnyCovariateR2s :
        Returned("calculateLogisticSE",
                [NoArgs EXCEPT !.n = n, !.prevalence = p, !.covariateR2 = r2],
                calculateLogisticSE(n, p, r2))

CallLogisticCaseControlSE ==
    /\ pc = "idle"
    /\ \E ca \in SampleSizes, co \in SampleSizes, r2 \in AnyCovariateR2s :
        Returned("calculateLogisticCaseControlSE",
                [NoArgs EXCEPT !.design = Design(ca, co), !.covariateR2 = r2],
                calculateLogisticCaseControlSE(ca, co, r2))

CallLogisticPower ==
    /\ pc = "idle"
    /\ \E or \in RatioEffects, n \in SampleSizes, p \in Prevalences, al \in Alphas,
       cc \in CaseControls, r2 \in CovariateR2s :
        Returned("calculateLogisticPower",
                [NoArgs EXCEPT !.effect = or, !.n = n, !.prevalence = p,
                               !.alpha = al, !.design = cc, !.covariateR2 = r2],
                calculateLogisticPower(or, n, p, al, cc, r2))

CallLogisticMinEffect ==
    /\ pc = "idle"
    /\ \E tp \in TargetPowers, n \in SampleSizes, p \in Prevalences, al \in Alphas,
       cc \in CaseControls, r2 \in CovariateR2s :
        Returned("calculateLogisticMinEffect",
                [NoArgs EXCEPT !.targetPower = tp, !.n = n, !.prevalence = p,
                               !.alpha = al, !.design = cc, !.covariateR2 = r2],
                calculateLogisticMinEffect(tp, n, p, al, cc, r2))

CallLogisticRequiredN ==
    /\ pc = "idle"
    /\ \E or \in RatioEffects, tp \in TargetPowers, p \in RequiredPrevalences, al \in Alphas,
       r2 \in CovariateR2s \cup {(3 * S) \div 2} :
        Returned("calculateLogisticRequiredN",
                [NoArgs EXCEPT !.effect = or, !.targetPower = tp, !.prevalence = p,
                               !.alpha = al, !.covariateR2 = r2],
                calculateLogisticRequiredN(or, tp, p, al, r2))

CallPoissonSE ==
    /\ pc = "idle"
    /\ \E n \in SampleSizes, p \in Prevalences, r2 \in AnyCovariateR2s :
        Returned("calculatePoissonSE",
                [NoArgs EXCEPT !.n = n, !.prevalence = p, !.covariateR2 = r2],
                calculatePoissonSE(n, p, r2))

CallPoissonPower ==
    /\ pc = "idle"
    /\ \E rr \in RatioEffects, n \in SampleSizes, p \in Prevalences, al \in Alphas,
       r2 \in CovariateR2s :
        Returned("calculatePoissonPower",
                [NoArgs EXCEPT !.effect = rr, !.n = n, !.prevalence = p,
                               !.alpha = al, !.covariateR2 = r2],
                calculatePoissonPower(rr, n, p, al, r2))

CallPoissonMinEffect ==
    /\ pc = "idle"
    /\ \E tp \in TargetPowers, n \in SampleSizes, p \in Prevalences, al \in Alphas,
       r2 \in CovariateR2s :
        Returned("calculatePoissonMinEffect",
                [NoArgs EXCEPT !.targetPower = tp, !.n = n, !.prevalence = p,
                               !.alpha = al, !.covariateR2 = r2],
                calculatePoissonMinEffect(tp, n, p, al, r2))

CallPoissonRequiredN ==
    /\ pc = "idle"
    /\ \E rr \in RatioEffects, tp \in TargetPowers, p \in RequiredPrevalences, al \in Alphas,
       r2 \in CovariateR2s \cup {(3 * S) \div 2} :
        Returned("calculatePoissonRequiredN",
                [NoArgs EXCEPT !.effect = rr, !.targetPower = tp, !.prevalence = p,
                               !.alpha = al, !.covariateR2 = r2],
                calculatePoissonRequiredN(rr, tp, p, al, r2))

CallDesignEffect ==
    /\ pc = "idle"
    /\ \E m \in ClusterSizes, rho \in ICCs :
        Returned("calculateDesignEffect",
                [NoArgs EXCEPT !.clusterSize = m, !.icc = rho],
                calculateDesignEffect(m, rho))

CallGEE_SE ==
    /\ pc = "idle"
    /\ \E n \in SampleSizes, cl \in Clusterings, sd \in ResidualSDs,
       r2 \in CovariateR2s \cup {(3 * S) \div 2} :
        Returned("calculateGEE_SE",
                [NoArgs EXCEPT !.n = n, !.clusterSize = cl[1], !.icc = cl[2],
                               !.residualSD = sd, !.covariateR2 = r2],
                calculateGEE_SE(n, cl[1], cl[2], sd, r2))

CallGEE_Power ==
    /\ pc = "idle"
    /\ \E b \in BetaEffects, n \in SampleSizes, cl \in Clusterings,
       sd \in ResidualSDs, al \in Alphas, r2 \in CovariateR2s :
        Returned("calculateGEE_Power",
                [NoArgs EXCEPT !.effect = b, !.n = n, !.clusterSize = cl[1], !.icc = cl[2],
                               !.residualSD = sd, !.alpha = al, !.covariateR2 = r2],
                calculateGEE_Power(b, n, cl[1], cl[2], sd, al, r2))

CallGEE_MinEffect ==
    /\ pc = "idle"
    /\ \E tp \in TargetPowers, n \in SampleSizes, cl \in Clusterings,
       sd \in ResidualSDs, al \in Alphas, r2 \in CovariateR2s :
        Returned("calculateGEE_MinEffect",
                [NoArgs EXCEPT !.targetPower = tp, !.n = n, !.clusterSize = cl[1],
                               !.icc = cl[2], !.residualSD = sd, !.alpha = al,
                               !.covariateR2 = r2],
                calculateGEE_MinEffect(tp, n, cl[1], cl[2], sd, al, r2))

CallGEE_RequiredN ==
    /\ pc = "idle"
    /\ \E b \in BetaEffects, tp \in TargetPowers, cl \in Clusterings,
       sd \in ResidualSDs, al \in Alphas, r2 \in CovariateR2s \cup {(3 * S) \div 2} :
        Returned("calculateGEE_RequiredN",
                [NoArgs EXCEPT !.effect = b, !.targetPower = tp, !.clusterSize = cl[1],
                               !.icc = cl[2], !.residualSD = sd, !.alpha = al,
                               !.covariateR2 = r2],
                calculateGEE_RequiredN(b, tp, cl[1], cl[2], sd, al, r2))

CallGEE_RequiredClusters ==
    /\ pc = "idle"
    /\ \E b \in BetaEffects, tp \in TargetPowers, cl \in Clusterings,
       sd \in ResidualSDs, al \in Alphas, r2 \in CovariateR2s \cup {(3 * S) \div 2} :
        Returned("calculateGEE_RequiredClusters",
                [NoArgs EXCEPT !.effect = b, !.targetPower = tp, !.clusterSize = cl[1],
                               !.icc = cl[2], !.residualSD = sd, !.alpha = al,
                               !.covariateR2 = r2],
                calculateGEE_RequiredClusters(b, tp, cl[1], cl[2], sd, al, r2))

CallPower ==
    /\ pc = "idle"
    /\ \E type \in AnalysisTypes, design \in StudyDesigns, e \in UnifiedEffects,
          al \in UnifiedAlphas, size \in OptSizes, pair \in OptPairs,
          ex \in OptExtras, r2 \in OptCovariateR2s :
        LET params == PowerParams(type, design, e, Undefined, al, size, pair, ex, r2)
        IN  Returned("calculatePower", [NoArgs EXCEPT !.params = params],
                     calculatePower(params))

CallMinEffect ==
    /\ pc = "idle"
    /\ \E type \in AnalysisTypes, design \in StudyDesigns,
          tp \in UnifiedTargetPowers, al \in UnifiedAlphas, size \in OptSizes,
          pair \in OptPairs, ex \in OptExtras, r2 \in OptCovariateR2s :
        LET params == PowerParams(type, design, Undefined, tp, al, size, pair, ex, r2)
        IN  Returned("calculateMinEffect", [NoArgs EXCEPT !.params = params],
                     calculateMinEffect(params))

CallTwoStagePower ==
    /\ pc = "idle"
    /\ \E e \in TwoStageEffects, type \in AnalysisTypes, proteins \in Stage1Proteins,
          n1 \in Stage1SampleSizes, n2 \in Stage2SampleSizes,
          fdr \in {S \div 20, S \div 2}, alpha2 \in Stage2Alphas,
          hits \in ExpectedHits, overlap \in SampleOverlaps, study \in Studies :
        LET params == TwoStageParams(proteins, n1, n2, fdr, alpha2, hits, overlap)
        IN  Returned("calculateTwoStagePower",
                     [NoArgs EXCEPT !.effect = e, !.analysisType = type,
                                    !.stage = params, !.study = study],
                     calculateTwoStagePower(e, type, params, study))

CallOptimalStage1FDR ==
    /\ pc = "idle"
    /\ \E e \in TwoStageEffects, type \in AnalysisTypes,
          n1 \in Stage1SampleSizes \ {0}, hits \in ExpectedHits,
          study \in Studies, fdrGrid \in FDRGrids :
        LET baseParams ==
                TwoStageParams(100 * S, n1, 500 * S, S \div 10, S \div 20, hits,
                               Undefined)
        IN  Returned("findOptimalStage1FDR",
                     [NoArgs EXCEPT !.effect = e, !.analysisType = type,
                                    !.stage = baseParams, !.study = study,
                                    !.fdrGrid = fdrGrid],
                     findOptimalStage1FDR(e, type, baseParams, study, fdrGrid))

\* let low = 50; let high = 10000; and the loop is entered
CallRequiredStage2Size ==
    /\ pc = "idle"
    /\ \E e \in SearchEffects, type \in AnalysisTypes, tp \in TargetJointPowers,
          n1 \in SearchStage1SampleSizes, study \in Studies,
          maxIterations \in IterationCaps :
        /\ pc' = "searching"
        /\ fn' = "calculateRequiredStage2Size"
        /\ args' = [NoArgs EXCEPT !.effect = e, !.analysisType = type,
                                  !.targetPower = tp,
                                  !.stage = TwoStageParams(100 * S, n1, 0, S \div 10,
                                                           S \div 20, Undefined,
                                                           Undefined),
                                  !.study = study,
                                  !.maxIterations = maxIterations]
        /\ out' = 0
        /\ low' = 50
        /\ high' = 10000
        /\ i' = 0
        /\ evaluations' = 0
        /\ UNCHANGED appVars

\* A variant of the loop body that moves the wrong end of the bracket
SearchIterateWrongEnd ==
    /\ pc = "searching"
    /\ i < args.maxIterations
    /\ \E mid \in {(low + high) \div 2} :
       \E result \in {calculateTwoStagePower(args.effect, args.analysisType,
                          [args.stage EXCEPT !.stage2SampleSize = mid * S],
                          args.study)} :
           /\ evaluations' = evaluations + 1
           /\ IF FLt(FAbs(FSub(result.jointPower, args.targetPower)), S \div 200)
              THEN /\ pc' = "returned"
                   /\ out' = mid * S
                   /\ UNCHANGED <<low, high, i>>
              ELSE /\ IF FLt(result.jointPower, args.targetPower)
                      THEN high' = mid - 1 /\ low' = low
                      ELSE low' = mid + 1 /\ high' = high
                   /\ i' = i + 1
                   /\ UNCHANGED <<pc, out>>
    /\ UNCHANGED <<fn, args, appVars>>

\* A variant of the loop body that does not advance the loop counter
SearchIterateNoCount ==
    /\ pc = "searching"
    /\ i < args.maxIterations
    /\ \E mid \in {(low + high) \div 2} :
       \E result \in {calculateTwoStagePower(args.effect, args.analysisType,
                          [args.stage EXCEPT !.stage2SampleSize = mid * S],
                          args.study)} :
           /\ evaluations' = evaluations + 1
           /\ IF FLt(FAbs(FSub(result.jointPower, args.targetPower)), S \div 200)
              THEN /\ pc' = "returned"
                   /\ out' = mid * S
                   /\ UNCHANGED <<low, high, i>>
              ELSE /\ IF FLt(result.jointPower, args.targetPower)
                      THEN low' = mid + 1 /\ high' = high
                      ELSE high' = mid - 1 /\ low' = low
                   /\ i' = i
                   /\ UNCHANGED <<pc, out>>
    /\ UNCHANGED <<fn, args, appVars>>

\* One pass of the loop body: evaluate the midpoint, return it or halve the bracket
SearchIterate ==
    /\ pc = "searching"
    /\ i < args.maxIterations
    /\ \E mid \in {(low + high) \div 2} :
       \E result \in {calculateTwoStagePower(args.effect, args.analysisType,
                          [args.stage EXCEPT !.stage2SampleSize = mid * S],
                          args.study)} :
           /\ evaluations' = evaluations + 1
           /\ IF FLt(FAbs(FSub(result.jointPower, args.targetPower)), S \div 200)
              THEN /\ pc' = "returned"
                   /\ out' = mid * S
                   /\ UNCHANGED <<low, high, i>>
              ELSE /\ IF FLt(result.jointPower, args.targetPower)
                      THEN low' = mid + 1 /\ high' = high
                      ELSE high' = mid - 1 /\ low' = low
                   /\ i' = i + 1
                   /\ UNCHANGED <<pc, out>>
    /\ UNCHANGED <<fn, args, appVars>>

\* The loop ends without a match: return Math.ceil((low + high) / 2)
SearchExhausted ==
    /\ pc = "searching"
    /\ ~(i < args.maxIterations)
    /\ pc' = "returned"
    /\ out' = ((low + high + 1) \div 2) * S
    /\ UNCHANGED <<fn, args, low, high, i, evaluations, appVars>>

CallPowerForEffect ==
    /\ pc = "idle"
    /\ \E app \in AppStates, e \in AppEffects, al \in AppAlphas :
        /\ app.studyDesign \in STUDY_DESIGN_OPTIONS[app.analysisType]
        /\ Returned("calculatePowerForEffect",
                    [NoArgs EXCEPT !.app = app, !.effect = e, !.alpha = al],
                    calculatePowerForEffect(app, e, al))

CallMinEffectForAlpha ==
    /\ pc = "idle"
    /\ \E app \in AppStates, al \in AppAlphas :
        /\ app.studyDesign \in STUDY_DESIGN_OPTIONS[app.analysisType]
        /\ Returned("calculateMinEffectForAlpha",
                    [NoArgs EXCEPT !.app = app, !.alpha = al],
                    calculateMinEffectForAlpha(app, al))

CallStandardError ==
    /\ pc = "idle"
    /\ \E app \in AppStates :
        /\ app.studyDesign \in STUDY_DESIGN_OPTIONS[app.analysisType]
        /\ Returned("standardError", [NoArgs EXCEPT !.app = app],
                    standardError(app))

CallGeneratePowerCurve ==
    /\ pc = "idle"
    /\ \E d \in CurveEvents, al \in UnifiedAlphas, range \in CurveRanges,
          numPoints \in 0..MaxPoints :
        Returned("generatePowerCurve",
                [NoArgs EXCEPT !.n = d, !.alpha = al, !.hrMin = range[1],
                               !.hrMax = range[2], !.numPoints = numPoints],
                generatePowerCurve(d, al, range[1], range[2], numPoints))

\* The caller takes the result; the engine keeps nothing between calls
Return ==
    /\ pc = "returned"
    /\ pc' = "idle"
    /\ fn' = "none"
    /\ args' = NoArgs
    /\ out' = 0
    /\ low' = 0 /\ high' = 0 /\ i' = 0 /\ evaluations' = 0
    /\ UNCHANGED appVars

Next ==
    \/ CallEffectiveAlpha
    \/ CallCoxSE
    \/ CallCoxCaseCohortSE
    \/ CallCoxPower
    \/ CallCoxMinEffect
    \/ CallCoxRequiredEvents
    \/ CallLinearSE
    \/ CallLinearPower
    \/ CallLinearPowerFromR2
    \/ CallLinearMinEffect
    \/ CallLinearRequiredN
    \/ CallLogisticSE
    \/ CallLogisticCaseControlSE
    \/ CallLogisticPower
    \/ CallLogisticMinEffect
    \/ CallLogisticRequiredN
    \/ CallPoissonSE
    \/ CallPoissonPower
    \/ CallPoissonMinEffect
    \/ CallPoissonRequiredN
    \/ CallDesignEffect
    \/ CallGEE_SE
    \/ CallGEE_Power
    \/ CallGEE_MinEffect
    \/ CallGEE_RequiredN
    \/ CallGEE_RequiredClusters
    \/ CallPower
    \/ CallMinEffect
    \/ CallTwoStagePower
    \/ CallOptimalStage1FDR
    \/ CallRequiredStage2Size
    \/ SearchIterate
    \/ SearchExhausted
    \/ CallPowerForEffect
    \/ CallMinEffectForAlpha
    \/ CallStandardError
    \/ CallGeneratePowerCurve
    \/ Return

(***************************************************************************)
(* The handlers of the protein-count panel                                 *)
(***************************************************************************)
\* The Compare Scenarios button
ToggleComparisonMode ==
    /\ comparisonMode' = ~comparisonMode
    /\ UNCHANGED <<engineVars, proteinCounts, newProteinCount>>

\* Typing into the number input
ChangeNewProteinCount ==
    /\ comparisonMode
    /\ \E text \in InputTexts : newProteinCount' = text
    /\ UNCHANGED <<engineVars, comparisonMode, proteinCounts>>

\* addProteinCount: the parsed count joins the list and the input is cleared,
\* or nothing changes
addProteinCount ==
    /\ IF AddAccepts(proteinCounts, newProteinCount)
       THEN /\ proteinCounts' =
                   SortAscending(Append(proteinCounts, parseInt(newProteinCount)))
            /\ newProteinCount' = <<>>
       ELSE UNCHANGED <<proteinCounts, newProteinCount>>
    /\ UNCHANGED <<engineVars, comparisonMode>>

\* The Add button, disabled while the input is empty or the list is full
ClickAdd ==
    /\ comparisonMode
    /\ newProteinCount # <<>>
    /\ Len(proteinCounts) < MaxScenarios
    /\ addProteinCount

\* The Enter key in the number input
PressEnter ==
    /\ comparisonMode
    /\ addProteinCount

\* A quick-add preset button, disabled while the list is full
ClickQuickAdd ==
    /\ comparisonMode
    /\ Len(proteinCounts) < MaxScenarios
    /\ \E k \in 1..Len(ShownPresets(proteinCounts)) :
        proteinCounts' =
            SortAscending(Append(proteinCounts, ShownPresets(proteinCounts)[k]))
    /\ UNCHANGED <<engineVars, comparisonMode, newProteinCount>>

\* removeProteinCount(count): the entry leaves the list unless it is the last one
removeProteinCount(count) ==
    /\ IF Len(proteinCounts) > 1
       THEN proteinCounts' = Without(proteinCounts, count)
       ELSE UNCHANGED proteinCounts
    /\ UNCHANGED <<engineVars, comparisonMode, newProteinCount>>

\* The Remove button of an entry, shown while the list has more than one entry
ClickRemove ==
    /\ comparisonMode
    /\ Len(proteinCounts) > 1
    /\ \E k \in 1..Len(proteinCounts) : removeProteinCount(proteinCounts[k])

AppNext ==
    \/ ToggleComparisonMode
    \/ ChangeNewProteinCount
    \/ ClickAdd
    \/ PressEnter
    \/ ClickQuickAdd
    \/ ClickRemove

AppSpec == Init /\ [][AppNext]_vars

Spec == Init /\ [][Next]_vars

\* A pass of the bisection loop or its exit: the counter advances or the
\* function returns
SearchStep ==
    /\ pc = "searching"
    /\ pc' \in {"searching", "returned"}
    /\ i' \in {i, i + 1}

\* The bisection is a synchronous loop: once entered it keeps taking its
\* passes and its final return without waiting on anything
FairSpec == Spec /\ WF_<<pc, i>>(SearchStep)


\* ---- Properties of the power-calculation engine ----

PowerFns ==
    {"calculateCoxPower", "calculateLinearPower", "calculateLogisticPower",
     "calculatePoissonPower", "calculateGEE_Power"}
RatioPowerFns ==
    {"calculateCoxPower", "calculateLogisticPower", "calculatePoissonPower"}
BetaPowerFns == {"calculateLinearPower", "calculateGEE_Power"}
RequiredFns ==
    {"calculateCoxRequiredEvents", "calculateLinearRequiredN",
     "calculateLogisticRequiredN", "calculatePoissonRequiredN",
     "calculateGEE_RequiredN"}
RatioRequiredFns ==
    {"calculateCoxRequiredEvents", "calculateLogisticRequiredN",
     "calculatePoissonRequiredN"}
SEFns ==
    {"calculateCoxSE", "calculateCoxCaseCohortSE", "calculateLinearSE",
     "calculateLogisticSE", "calculateLogisticCaseControlSE",
     "calculatePoissonSE", "calculateGEE_SE"}

\* The power function called name, applied to the arguments recorded in a
PowerOf(name, a) ==
    CASE name = "calculateCoxPower" ->
            calculateCoxPower(a.effect, a.n, a.alpha, a.design, a.covariateR2)
      [] name = "calculateLinearPower" ->
            calculateLinearPower(a.effect, a.n, a.residualSD, a.alpha, a.covariateR2)
      [] name = "calculateLogisticPower" ->
            calculateLogisticPower(a.effect, a.n, a.prevalence, a.alpha, a.design,
                                   a.covariateR2)
      [] name = "calculatePoissonPower" ->
            calculatePoissonPower(a.effect, a.n, a.prevalence, a.alpha, a.covariateR2)
      [] name = "calculateGEE_Power" ->
            calculateGEE_Power(a.effect, a.n, a.clusterSize, a.icc, a.residualSD,
                               a.alpha, a.covariateR2)

\* The power function of the model whose required-sample-size function is name
PowerFnOf(name) ==
    CASE name = "calculateCoxRequiredEvents" -> "calculateCoxPower"
      [] name = "calculateLinearRequiredN" -> "calculateLinearPower"
      [] name = "calculateLogisticRequiredN" -> "calculateLogisticPower"
      [] name = "calculatePoissonRequiredN" -> "calculatePoissonPower"
      [] name = "calculateGEE_RequiredN" -> "calculateGEE_Power"

InUnit(x) == 0 < x /\ x < S

\* The sample parameters of a call are those of a study that can exist:
\* positive sizes, a prevalence strictly between 0 and 1, a positive standard
\* deviation, a positive cluster size and an intra-cluster correlation in
\* [0, 1].  The linear and GEE models need more than 2 observations.
ValidSample(name, a) ==
    CASE name \in {"calculateCoxPower"} ->
            /\ a.n > 0
            /\ a.design.given => a.design.a > 0 /\ a.design.b > 0
      [] name \in {"calculateLinearPower"} ->
            a.n > 2 * S /\ a.residualSD > 0
      [] name \in {"calculateLogisticPower"} ->
            IF a.design.given THEN a.design.a > 0 /\ a.design.b > 0
            ELSE a.n > 0 /\ InUnit(a.prevalence)
      [] name \in {"calculatePoissonPower"} ->
            a.n > 0 /\ InUnit(a.prevalence)
      [] name \in {"calculateGEE_Power"} ->
            /\ a.n > 2 * S
            /\ a.residualSD > 0
            /\ a.clusterSize > 0
            /\ 0 <= a.icc /\ a.icc <= S
      [] name \in {"calculateCoxRequiredEvents"} -> TRUE
      [] name \in {"calculateLinearRequiredN"} -> a.residualSD > 0
      [] name \in {"calculateLogisticRequiredN", "calculatePoissonRequiredN"} ->
            InUnit(a.prevalence)
      [] name \in {"calculateGEE_RequiredN"} ->
            /\ a.residualSD > 0
            /\ a.clusterSize > 0
            /\ 0 <= a.icc /\ a.icc <= S

\* The effect of no association: a ratio of 1, a coefficient of 0
NullEffect(name) == IF name \in RatioPowerFns THEN S ELSE 0

\* The tolerance of the null-power test (test-comprehensive-validation.cjs)
NullTolerance == S \div 1000

\* C1: at the null effect (HR = OR = RR = 1, beta = 0) every model's power
\* function returns the significance level alpha itself, within 0.001, for
\* every valid sample-parameter set and every alpha in (0, 1).
C1_NullPowerIsAlpha ==
    (/\ pc = "returned"
     /\ fn \in PowerFns
     /\ args.effect = NullEffect(fn)
     /\ ValidSample(fn, args)
     /\ InUnit(args.alpha))
    => /\ isFinite(out)
       /\ FAbs(out - args.alpha) <= NullTolerance

\* The clustered GEE model has returned alpha = 0.05 at the null effect
C1_Witness ==
    /\ pc = "returned"
    /\ fn = "calculateGEE_Power"
    /\ args.effect = NullEffect(fn)
    /\ ValidSample(fn, args)
    /\ args.icc > 0
    /\ args.alpha = S \div 20
    /\ out = S \div 20

\* C2: for valid inputs every power function, and the unified
\* calculatePower, returns a number in [0, 1].  A covariateR2 outside [0, 1)
\* counts as valid because the calculators replace it by 0.
C2_PowerInUnitInterval ==
    /\ (/\ pc = "returned"
        /\ fn \in PowerFns
        /\ args.effect > 0 \/ fn \in BetaPowerFns
        /\ ValidSample(fn, args)
        /\ InUnit(args.alpha))
       => isFinite(out) /\ 0 <= out /\ out <= S
    /\ (/\ pc = "returned"
        /\ fn = "calculatePower"
        /\ args.params.effectSize > 0
        /\ InUnit(args.params.alpha))
       => isFinite(out) /\ 0 <= out /\ out <= S

\* A power strictly inside (0, 1) for a covariateR2 the calculator sanitises
C2_Witness ==
    /\ pc = "returned"
    /\ fn = "calculateCoxPower"
    /\ ValidSample(fn, args)
    /\ args.effect = (5 * S) \div 4
    /\ args.covariateR2 > S
    /\ InUnit(args.alpha)
    /\ 0 < out /\ out < S

\* An argument of the call is one the documentation calls invalid: a
\* non-positive sample size or event count, alpha or target power outside
\* (0, 1), a prevalence at or outside the boundary, a non-positive ratio.
\* Only arguments the called function takes in the given design count.
InvalidPowerArgs(name, a) ==
    \/ ~InUnit(a.alpha)
    \/ name \in RatioPowerFns /\ a.effect <= 0
    \/ name = "calculateCoxPower"
         /\ (a.n <= 0 \/ (a.design.given /\ (a.design.a <= 0 \/ a.design.b <= 0)))
    \/ name = "calculateLinearPower" /\ a.n <= 0
    \/ name = "calculateLogisticPower"
         /\ IF a.design.given THEN a.design.a <= 0 \/ a.design.b <= 0
            ELSE a.n <= 0 \/ ~InUnit(a.prevalence)
    \/ name = "calculatePoissonPower" /\ (a.n <= 0 \/ ~InUnit(a.prevalence))
    \/ name = "calculateGEE_Power" /\ a.n <= 0

MinEffectFns ==
    {"calculateCoxMinEffect", "calculateLinearMinEffect",
     "calculateLogisticMinEffect", "calculatePoissonMinEffect",
     "calculateGEE_MinEffect"}

InvalidMinEffectArgs(name, a) ==
    \/ ~InUnit(a.alpha)
    \/ ~InUnit(a.targetPower)
    \/ name = "calculateCoxMinEffect"
         /\ (a.n <= 0 \/ (a.design.given /\ (a.design.a <= 0 \/ a.design.b <= 0)))
    \/ name \in {"calculateLinearMinEffect", "calculateGEE_MinEffect"} /\ a.n <= 0
    \/ name = "calculateLogisticMinEffect"
         /\ IF a.design.given THEN a.design.a <= 0 \/ a.design.b <= 0
            ELSE a.n <= 0 \/ ~InUnit(a.prevalence)
    \/ name = "calculatePoissonMinEffect" /\ (a.n <= 0 \/ ~InUnit(a.prevalence))

InvalidRequiredArgs(name, a) ==
    \/ ~InUnit(a.alpha)
    \/ ~InUnit(a.targetPower)
    \/ name \in RatioRequiredFns /\ a.effect <= 0
    \/ name \in {"calculateLogisticRequiredN", "calculatePoissonRequiredN"}
         /\ ~InUnit(a.prevalence)

\* C3: on an invalid input a power function returns 0, and a minimum-effect
\* or required-sample-size function returns Infinity; no calculator throws
\* or returns NaN.
C3_InvalidInputSentinels ==
    pc = "returned" =>
        /\ fn \in PowerFns /\ InvalidPowerArgs(fn, args) => out = 0
        /\ fn \in MinEffectFns /\ InvalidMinEffectArgs(fn, args) => out = Infinity
        /\ fn \in RequiredFns /\ InvalidRequiredArgs(fn, args) => out = Infinity

\* C4: calculateEffectiveAlpha returns threshold / numTests for both the
\* "fdr" and the "bonferroni" method, and the threshold itself when
\* numTests <= 0.  The quotient is stated by its defining inequality:
\* out is the multiple of the resolution nearest to threshold / m.
C4_EffectiveAlpha ==
    (pc = "returned" /\ fn = "calculateEffectiveAlpha") =>
        LET m == args.numTests \div S
        IN  IF m <= 0 THEN out = args.threshold
            ELSE /\ 2 * out * m <= 2 * args.threshold + m
                 /\ 2 * args.threshold < 2 * out * m + m

\* 0.05 over 1000 tests is 0.00005 under the bonferroni method
C4_Witness ==
    /\ pc = "returned"
    /\ fn = "calculateEffectiveAlpha"
    /\ args.method = "bonferroni"
    /\ args.numTests = 1000 * S
    /\ args.threshold = S \div 20
    /\ out = 5

\* The effect of the same size in the opposite direction: 1/e for a ratio,
\* -beta for a coefficient
Mirror(name, effect) ==
    IF name \in RatioPowerFns \cup RatioRequiredFns THEN FDiv(One, effect)
    ELSE FNeg(effect)

\* The accuracy of a computed power at the model's resolution, 0.0002: two
\* powers the code's doubles make equal may differ by this much here
PowerTolerance == S \div 5000

\* C5: for fixed sample parameters and alpha the ratio-model power
\* calculators (Cox, logistic, Poisson) return the same power for e and 1/e,
\* and the beta-model calculators (linear, GEE) the same power for beta and
\* -beta (exactly for beta, within the model's accuracy for a ratio).
C5_DirectionSymmetry ==
    (/\ pc = "returned"
     /\ fn \in PowerFns
     /\ fn \in RatioPowerFns => args.effect > 0
     /\ ValidSample(fn, args)
     /\ InUnit(args.alpha))
    => LET other == PowerOf(fn, [args EXCEPT !.effect = Mirror(fn, args.effect)])
       IN  /\ isFinite(out) /\ isFinite(other)
           /\ FAbs(out - other) <= PowerTolerance
           /\ fn \in BetaPowerFns => out = other

\* The power for the protective hazard ratio 0.5, strictly between alpha and 1
C5_Witness ==
    /\ pc = "returned"
    /\ fn = "calculateCoxPower"
    /\ ValidSample(fn, args)
    /\ args.effect = S \div 2
    /\ args.alpha = S \div 20
    /\ args.alpha < out /\ out < S
    /\ FAbs(out - PowerOf(fn, [args EXCEPT !.effect = 2 * S])) <= PowerTolerance

\* C6: with N the value a model's required-N function returns, finite, the
\* model's power at N is at least targetPower and its power at N - 1 is
\* strictly less than targetPower (both within the model's accuracy).
C6_RequiredNIsTight ==
    (/\ pc = "returned"
     /\ fn \in RequiredFns
     /\ isFinite(out))
    => LET atN == PowerOf(PowerFnOf(fn), [args EXCEPT !.n = out])
           below == PowerOf(PowerFnOf(fn), [args EXCEPT !.n = out - S])
       IN  /\ FGe(atN + PowerTolerance, args.targetPower)
           /\ FLt(below, args.targetPower + PowerTolerance)

\* What a power may lose to rounding in its last place
MonotoneSlack == S \div 50000

\* C7: for every model, fixed effect and fixed alpha, power is
\* non-decreasing in the events / sample size argument.
C7_MonotoneInSampleSize ==
    (/\ pc = "returned"
     /\ fn \in PowerFns
     /\ args.design.given => args.design.a > 0 /\ args.design.b > 0)
    => \A n2 \in SampleSizes :
         n2 >= args.n =>
           LET larger == PowerOf(fn, [args EXCEPT !.n = n2])
           IN  isFinite(out) /\ isFinite(larger) /\ out <= larger + MonotoneSlack

\* A power strictly inside (0, 1) that a larger sample strictly improves
C7_Witness ==
    /\ pc = "returned"
    /\ fn = "calculatePoissonPower"
    /\ 0 < out /\ out < S
    /\ \E n2 \in SampleSizes :
         n2 > args.n /\ PowerOf(fn, [args EXCEPT !.n = n2]) > out + MonotoneSlack

RequiredClusterFns == RequiredFns \cup {"calculateGEE_RequiredClusters"}

ValidRequired(name, a) ==
    /\ InUnit(a.alpha)
    /\ InUnit(a.targetPower)
    /\ ValidSample(IF name = "calculateGEE_RequiredClusters"
                   THEN "calculateGEE_RequiredN" ELSE name, a)

C9_RequiredEventsSymmetric ==
    (/\ pc = "returned"
     /\ fn = "calculateCoxRequiredEvents"
     /\ args.effect > S
     /\ ValidRequired(fn, args))
    => calculateCoxRequiredEvents(Mirror(fn, args.effect), args.targetPower,
                                  args.alpha, args.covariateR2) = out

\* C10: every standard-error calculator returns Infinity or a finite,
\* strictly positive number; never 0, a negative number or NaN.
C10_StandardErrorPositive ==
    (pc = "returned" /\ fn \in SEFns) =>
        out = Infinity \/ (isFinite(out) /\ out > 0)

(***************************************************************************)
(* Unified dispatch and covariate adjustment                               *)
(***************************************************************************)
\* A field of the parameter bundle is supplied when the caller gave it a value
Supplied(x) == x # Undefined

\* The per-model power the routing rule selects for a parameter bundle
RoutedPower(p) ==
    LET r2 == DefaultTo(p.covariateR2, 0)
    IN  CASE p.analysisType = "cox" ->
               calculateCoxPower(p.effectSize, OrElse(p.events, 0), p.alpha,
                   IF p.studyDesign = "case-cohort" /\ Supplied(p.subcohortSize)
                      /\ Supplied(p.totalCohort)
                   THEN Design(p.subcohortSize, p.totalCohort) ELSE NoDesign, r2)
          [] p.analysisType = "linear" ->
               calculateLinearPower(p.effectSize, OrElse(p.sampleSize, 0),
                                    OrElse(p.residualSD, One), p.alpha, r2)
          [] p.analysisType = "logistic" ->
               IF p.studyDesign = "case-control" /\ Supplied(p.cases)
                  /\ Supplied(p.controls)
               THEN calculateLogisticPower(p.effectSize, 0, 0, p.alpha,
                                           Design(p.cases, p.controls), r2)
               ELSE calculateLogisticPower(p.effectSize, OrElse(p.sampleSize, 0),
                                           OrElse(p.prevalence, S \div 10), p.alpha,
                                           NoDesign, r2)
          [] p.analysisType = "poisson" ->
               calculatePoissonPower(p.effectSize, OrElse(p.sampleSize, 0),
                                     OrElse(p.prevalence, S \div 10), p.alpha, r2)
          [] p.analysisType = "gee" ->
               calculateGEE_Power(p.effectSize, OrElse(p.sampleSize, 0),
                                  OrElse(p.clusterSize, One), OrElse(p.icc, 0),
                                  OrElse(p.residualSD, One), p.alpha, r2)
          [] OTHER -> 0

\* The per-model minimum detectable effect the routing rule selects
RoutedMinEffect(p) ==
    LET r2 == DefaultTo(p.covariateR2, 0)
    IN  CASE p.analysisType = "cox" ->
               calculateCoxMinEffect(p.targetPower, OrElse(p.events, 0), p.alpha,
                   IF p.studyDesign = "case-cohort" /\ Supplied(p.subcohortSize)
                      /\ Supplied(p.totalCohort)
                   THEN Design(p.subcohortSize, p.totalCohort) ELSE NoDesign, r2)
          [] p.analysisType = "linear" ->
               calculateLinearMinEffect(p.targetPower, OrElse(p.sampleSize, 0),
                                        OrElse(p.residualSD, One), p.alpha, r2)
          [] p.analysisType = "logistic" ->
               IF p.studyDesign = "case-control" /\ Supplied(p.cases)
                  /\ Supplied(p.controls)
               THEN calculateLogisticMinEffect(p.targetPower, 0, 0, p.alpha,
                                               Design(p.cases, p.controls), r2)
               ELSE calculateLogisticMinEffect(p.targetPower, OrElse(p.sampleSize, 0),
                                               OrElse(p.prevalence, S \div 10),
                                               p.alpha, NoDesign, r2)
          [] p.analysisType = "poisson" ->
               calculatePoissonMinEffect(p.targetPower, OrElse(p.sampleSize, 0),
                                         OrElse(p.prevalence, S \div 10), p.alpha, r2)
          [] p.analysisType = "gee" ->
               calculateGEE_MinEffect(p.targetPower, OrElse(p.sampleSize, 0),
                                      OrElse(p.clusterSize, One), OrElse(p.icc, 0),
                                      OrElse(p.residualSD, One), p.alpha, r2)
          [] OTHER -> Infinity

\* C11: calculatePower and calculateMinEffect return exactly the result of the
\* per-model function selected by analysisType; the case-cohort path (cox) and
\* the cases/controls path (logistic) are taken if and only if the study design
\* names them and both of their fields are supplied, every other combination
\* falls back to the cohort computation, and an unknown analysisType yields 0
\* (power) or Infinity (minimum effect).
C11_DispatchRouting ==
    /\ (pc = "returned" /\ fn = "calculatePower")
          => out = RoutedPower(args.params)
    /\ (pc = "returned" /\ fn = "calculateMinEffect")
          => out = RoutedMinEffect(args.params)

\* The standard-error function called name, applied to recorded arguments
SEOf(name, a) ==
    CASE name = "calculateCoxSE" -> calculateCoxSE(a.n, a.covariateR2)
      [] name = "calculateCoxCaseCohortSE" ->
            calculateCoxCaseCohortSE(a.n, a.design.a, a.design.b, a.covariateR2)
      [] name = "calculateLinearSE" ->
            calculateLinearSE(a.n, a.residualSD, a.covariateR2)
      [] name = "calculateLogisticSE" ->
            calculateLogisticSE(a.n, a.prevalence, a.covariateR2)
      [] name = "calculateLogisticCaseControlSE" ->
            calculateLogisticCaseControlSE(a.design.a, a.design.b, a.covariateR2)
      [] name = "calculatePoissonSE" ->
            calculatePoissonSE(a.n, a.prevalence, a.covariateR2)
      [] name = "calculateGEE_SE" ->
            calculateGEE_SE(a.n, a.clusterSize, a.icc, a.residualSD, a.covariateR2)

\* The required-sample-size function called name, applied to recorded arguments
RequiredOf(name, a) ==
    CASE name = "calculateCoxRequiredEvents" ->
            calculateCoxRequiredEvents(a.effect, a.targetPower, a.alpha, a.covariateR2)
      [] name = "calculateLinearRequiredN" ->
            calculateLinearRequiredN(a.effect, a.targetPower, a.residualSD, a.alpha,
                                     a.covariateR2)
      [] name = "calculateLogisticRequiredN" ->
            calculateLogisticRequiredN(a.effect, a.targetPower, a.prevalence, a.alpha,
                                       a.covariateR2)
      [] name = "calculatePoissonRequiredN" ->
            calculatePoissonRequiredN(a.effect, a.targetPower, a.prevalence, a.alpha,
                                      a.covariateR2)
      [] name = "calculateGEE_RequiredN" ->
            calculateGEE_RequiredN(a.effect, a.targetPower, a.clusterSize, a.icc,
                                   a.residualSD, a.alpha, a.covariateR2)
      [] name = "calculateGEE_RequiredClusters" ->
            calculateGEE_RequiredClusters(a.effect, a.targetPower, a.clusterSize,
                                          a.icc, a.residualSD, a.alpha, a.covariateR2)

\* The arguments of a call with no covariate adjustment
Unadjusted(a) == [a EXCEPT !.covariateR2 = 0]

\* A covariateR2 the calculators accept
UsableR2(r2) == FGe(r2, 0) /\ FLt(r2, One)

\* C14: in every SE and required-N calculator a covariateR2 outside [0, 1) is
\* replaced by 0 and a covariateR2 inside [0, 1) multiplies the variance by
\* 1 / (1 - R2), so that for all inputs the SE is at least the SE with
\* covariateR2 = 0 and the required N is at least the required N with
\* covariateR2 = 0.
C14_CovariateAdjustment ==
    /\ (pc = "returned" /\ fn \in SEFns) =>
          LET plain == SEOf(fn, Unadjusted(args))
          IN  /\ ~UsableR2(args.covariateR2) => out = plain
              /\ (UsableR2(args.covariateR2) /\ isFinite(plain)) =>
                    FLe(FAbs(FSub(FMul(out, FSqrt(FSub(One, args.covariateR2))),
                                  plain)), PowerTolerance + (plain \div 5000))
              /\ FGe(out, plain)
    /\ (pc = "returned" /\ fn \in RequiredClusterFns) =>
          LET plain == RequiredOf(fn, Unadjusted(args))
          IN  /\ ~UsableR2(args.covariateR2) => out = plain
              /\ FGe(out, plain)

(***************************************************************************)
(* Two-stage design                                                        *)
(***************************************************************************)
\* C12: in every result of calculateTwoStagePower, jointPower equals
\* stage1Power multiplied by stage2Power, lies in [0, 1], and exceeds neither
\* stage1Power nor stage2Power.
C12_JointPowerIsProduct ==
    (pc = "returned" /\ fn = "calculateTwoStagePower") =>
        /\ out.jointPower = FMul(out.stage1Power, out.stage2Power)
        /\ FGe(out.jointPower, 0) /\ FLe(out.jointPower, One)
        /\ FLe(out.jointPower, out.stage1Power)
        /\ FLe(out.jointPower, out.stage2Power)

\* A result whose two stage powers are both strictly between 0 and 1
C12_Witness ==
    /\ pc = "returned" /\ fn = "calculateTwoStagePower"
    /\ 0 < out.stage1Power /\ out.stage1Power < One
    /\ 0 < out.stage2Power /\ out.stage2Power < One
    /\ 0 < out.jointPower /\ out.jointPower < out.stage1Power
    /\ out.jointPower < out.stage2Power

\* Joint power of the call's design with the stage-1 FDR threshold set to fdr
JointPowerAt(fdr) ==
    calculateTwoStagePower(args.effect, args.analysisType,
                           [args.stage EXCEPT !.stage1FDR = fdr],
                           args.study).jointPower

\* C13: for a non-empty grid, findOptimalStage1FDR returns one results entry per
\* grid threshold, in grid order, each holding that threshold's joint power;
\* optimalFDR is a threshold of the grid, and maxJointPower is the joint power
\* at optimalFDR and is at least the joint power of every entry.
C13_OptimalFDRFromGrid ==
    (pc = "returned" /\ fn = "findOptimalStage1FDR") =>
        /\ Len(out.results) = Len(args.fdrGrid)
        /\ \A k \in 1..Len(args.fdrGrid) :
              /\ out.results[k].fdr = args.fdrGrid[k]
              /\ out.results[k].jointPower = JointPowerAt(args.fdrGrid[k])
        /\ \E k \in 1..Len(args.fdrGrid) : out.optimalFDR = args.fdrGrid[k]
        /\ out.maxJointPower = JointPowerAt(out.optimalFDR)
        /\ \A k \in 1..Len(out.results) :
              FGe(out.maxJointPower, out.results[k].jointPower)

\* A grid of two thresholds whose first has strictly the larger joint power
C13_Witness ==
    /\ pc = "returned" /\ fn = "findOptimalStage1FDR"
    /\ Len(args.fdrGrid) = 2
    /\ out.results[1].jointPower > out.results[2].jointPower
    /\ out.optimalFDR = args.fdrGrid[1]
    /\ out.optimalFDR # args.fdrGrid[2]

\* The bundle of a stage whose sample quantity (events for cox, sampleSize for
\* the other analysis types) is size and whose per-test alpha is alpha
StageBundle(size, alpha) ==
    [Stage1PowerParams(args.effect, args.analysisType, alpha, size, args.study)
        EXCEPT !.events = size]

\* C15: for every analysis type the stage-1 power calculation consumes
\* stage1SampleSize and the stage-2 power calculation consumes
\* stage2SampleSize * (1 - 0.5 * sampleOverlap), so that the two stage powers
\* differ only through their sample sizes and alphas.
C15_StageSampleSizes ==
    (pc = "returned" /\ fn = "calculateTwoStagePower") =>
        LET sampleOverlap == DefaultTo(args.stage.sampleOverlap, 0)
            effectiveStage2Size ==
                FMul(args.stage.stage2SampleSize,
                     FSub(One, FMul(S \div 2, sampleOverlap)))
        IN  /\ out.stage1Power =
                  calculatePower(StageBundle(args.stage.stage1SampleSize,
                                             out.stage1Alpha))
            /\ out.stage2Power =
                  calculatePower(StageBundle(effectiveStage2Size,
                                             out.stage2PerProteinAlpha))

\* Expected number advancing before the report rounds it: expectedHits *
\* stage1Power + (stage1Proteins - expectedHits) * stage1Alpha
UnroundedAdvancing ==
    LET hits == DefaultTo(args.stage.expectedHits, 10 * S)
    IN  FAdd(FMul(hits, out.stage1Power),
             FMul(FSub(args.stage.stage1Proteins, hits), out.stage1Alpha))

\* C16 (as stated): in every TwoStageResult the reported stage2PerProteinAlpha
\* equals stage2Alpha / ceil(expectedAdvancing) of the reported
\* expectedAdvancing when that exceeds 1 and stage2Alpha otherwise, and it is
\* at most stage2Alpha in all cases.
C16_AlphaFromReportedAdvancing ==
    (pc = "returned" /\ fn = "calculateTwoStagePower") =>
        /\ FGt(out.expectedAdvancing, One) =>
              out.stage2PerProteinAlpha =
                  FDiv(args.stage.stage2Alpha, FCeil(out.expectedAdvancing))
        /\ ~FGt(out.expectedAdvancing, One) =>
              out.stage2PerProteinAlpha = args.stage.stage2Alpha
        /\ FLe(out.stage2PerProteinAlpha, args.stage.stage2Alpha)

\* C16 (amended): the reported stage2PerProteinAlpha is consistent with the
\* expected number advancing before it is rounded for the report, e: it equals
\* stage2Alpha / ceil(e) when e > 1 and stage2Alpha otherwise; the reported
\* expectedAdvancing is e rounded to one decimal; and stage2PerProteinAlpha is
\* at most stage2Alpha whenever stage2Alpha is not negative.
C16_AlphaFromUnroundedAdvancing ==
    (pc = "returned" /\ fn = "calculateTwoStagePower") =>
        /\ FGt(UnroundedAdvancing, One) =>
              out.stage2PerProteinAlpha =
                  FDiv(args.stage.stage2Alpha, FCeil(UnroundedAdvancing))
        /\ ~FGt(UnroundedAdvancing, One) =>
              out.stage2PerProteinAlpha = args.stage.stage2Alpha
        /\ out.expectedAdvancing % (S \div 10) = 0
        /\ FLe(FAbs(FSub(out.expectedAdvancing, UnroundedAdvancing)), S \div 20)
        /\ FGe(args.stage.stage2Alpha, 0) =>
              FLe(out.stage2PerProteinAlpha, args.stage.stage2Alpha)

\* A result whose expected number advancing rounds down to a whole number, so
\* that the divisor is one more than the reported value
C16_Witness ==
    /\ pc = "returned" /\ fn = "calculateTwoStagePower"
    /\ args.stage.stage2Alpha > 0
    /\ UnroundedAdvancing > One
    /\ FCeil(UnroundedAdvancing) = out.expectedAdvancing + One
    /\ out.stage2PerProteinAlpha < args.stage.stage2Alpha

\* C17: calculateRequiredStage2Size always returns a stage-2 sample size inside
\* its search range [50, 10000], whatever the target joint power, also when no
\* size in the range reaches the target and when every size exceeds it.
C17_ResultInSearchRange ==
    (pc = "returned" /\ fn = "calculateRequiredStage2Size") =>
        (50 * S <= out /\ out <= 10000 * S)

\* Joint power of the search's design at a stage-2 sample size of n
JointPowerAtSize(n) ==
    calculateTwoStagePower(args.effect, args.analysisType,
                           [args.stage EXCEPT !.stage2SampleSize = n * S],
                           args.study).jointPower

\* Sizes of the search range at which monotonicity is sampled
ProbeSizes == {50, 100, 200, 500, 1000, 2000, 5000, 10000}

\* Joint power does not decrease from one sampled size to the next, nor across
\* the returned size n and its neighbours
MonotoneAround(n) ==
    \A a, b \in ProbeSizes \cup {n - 1, n, n + 1} :
        a < b => FLe(JointPowerAtSize(a), JointPowerAtSize(b))

\* C18: if joint power is non-decreasing in the stage-2 sample size and some
\* size in [50, 10000] reaches the target, then with the default 50 iterations
\* the returned n has jointPower(n) > target - 0.005 and every smaller size in
\* the range has jointPower < target + 0.005.
C18_SmallestSufficientSize ==
    (/\ pc = "returned" /\ fn = "calculateRequiredStage2Size"
     /\ args.maxIterations = DefaultMaxIterations
     /\ MonotoneAround(out \div S)
     /\ FGe(JointPowerAtSize(10000), args.targetPower)) =>
        /\ FGt(JointPowerAtSize(out \div S), FSub(args.targetPower, S \div 200))
        /\ \A m \in ProbeSizes \cup {(out \div S) - 1} :
              (50 <= m /\ m < out \div S) =>
                  FLt(JointPowerAtSize(m), FAdd(args.targetPower, S \div 200))

\* A search that halved its bracket several times and returned a size whose
\* predecessor falls short of the target
C18_Witness ==
    /\ pc = "returned" /\ fn = "calculateRequiredStage2Size"
    /\ args.maxIterations = DefaultMaxIterations
    /\ i >= 5
    /\ out > 50 * S /\ out < 10000 * S
    /\ MonotoneAround(out \div S)
    /\ FGe(JointPowerAtSize(10000), args.targetPower)
    /\ FLt(JointPowerAtSize((out \div S) - 1), args.targetPower)

\* C19: calculateRequiredStage2Size terminates for every input: it makes at
\* most maxIterations evaluations of calculateTwoStagePower and then returns,
\* also when the bracket has crossed, the target is unreachable or joint power
\* is not monotone in the stage-2 size.
C19_SearchTerminates ==
    /\ [](fn = "calculateRequiredStage2Size" => evaluations <= args.maxIterations)
    /\ (pc = "searching") ~> (pc = "returned")

\* A search that used all of its 50 evaluations on a crossed bracket and returned
C19_Witness ==
    /\ pc = "returned" /\ fn = "calculateRequiredStage2Size"
    /\ args.maxIterations = DefaultMaxIterations
    /\ evaluations = DefaultMaxIterations
    /\ low > high

\* Positions of the grid whose joint power is the largest of the results
MaximalPositions ==
    {k \in 1..Len(out.results) :
        \A j \in 1..Len(out.results) :
            FGe(out.results[k].jointPower, out.results[j].jointPower)}

\* Smallest and largest of a non-empty set of positions
FirstOf(ks) == CHOOSE k \in ks : \A j \in ks : k <= j
LastOf(ks) == CHOOSE k \in ks : \A j \in ks : j <= k

\* C20 (as stated): when several grid thresholds attain the maximal joint
\* power, optimalFDR is the one that appears first in fdrGrid, and the result
\* is the same on every call with the same inputs.
C20_FirstEncounteredMax ==
    (pc = "returned" /\ fn = "findOptimalStage1FDR") =>
        /\ out.optimalFDR = args.fdrGrid[FirstOf(MaximalPositions)]
        /\ out = findOptimalStage1FDR(args.effect, args.analysisType, args.stage,
                                      args.study, args.fdrGrid)

\* C20 (amended): when several grid thresholds attain the maximal joint power,
\* optimalFDR is the one that appears last in fdrGrid, and the result is the
\* same on every call with the same inputs.
C20_LastEncounteredMax ==
    (pc = "returned" /\ fn = "findOptimalStage1FDR") =>
        /\ out.optimalFDR = args.fdrGrid[LastOf(MaximalPositions)]
        /\ out = findOptimalStage1FDR(args.effect, args.analysisType, args.stage,
                                      args.study, args.fdrGrid)

\* Two different thresholds tie for the maximal joint power and the later wins
C20_Witness ==
    /\ pc = "returned" /\ fn = "findOptimalStage1FDR"
    /\ Len(args.fdrGrid) = 2
    /\ args.fdrGrid[1] # args.fdrGrid[2]
    /\ out.results[1].jointPower = out.results[2].jointPower
    /\ out.results[1].jointPower > 0
    /\ out.optimalFDR = args.fdrGrid[2]
(***************************************************************************)
(* Cost efficiency, study designs and default-filling                      *)
(***************************************************************************)
\* Total sample size of the call's design before the report rounds it up
TotalSampleSize ==
    LET sampleOverlap == DefaultTo(args.stage.sampleOverlap, 0)
    IN  IF FGt(sampleOverlap, 0)
        THEN FAdd(args.stage.stage1SampleSize,
                  FMul(args.stage.stage2SampleSize, FSub(One, sampleOverlap)))
        ELSE FAdd(args.stage.stage1SampleSize, args.stage.stage2SampleSize)

\* Power of a single-stage study of the call's design at alpha
\* 0.05 / stage1Proteins with the same total sample size
SingleStagePower ==
    calculatePower(
        [Stage1PowerParams(args.effect, args.analysisType, out.stage1Alpha,
                           args.stage.stage1SampleSize, args.study)
            EXCEPT !.alpha = calculateEffectiveAlpha(S \div 20,
                                                     args.stage.stage1Proteins,
                                                     "bonferroni"),
                   !.sampleSize = TotalSampleSize])

C22_NestedCaseControlLogistic ==
    /\ (/\ pc = "returned" /\ fn \in {"calculatePower", "calculateMinEffect"}
        /\ args.params.analysisType = "logistic"
        /\ args.params.studyDesign = "nested-case-control"
        /\ Supplied(args.params.cases) /\ Supplied(args.params.controls))
          => out = IF fn = "calculatePower"
                   THEN calculatePower([args.params EXCEPT
                                           !.studyDesign = "case-control"])
                   ELSE calculateMinEffect([args.params EXCEPT
                                               !.studyDesign = "case-control"])
    /\ (/\ pc = "returned"
        /\ fn \in {"calculatePowerForEffect", "calculateMinEffectForAlpha"}
        /\ args.app.analysisType = "logistic"
        /\ args.app.studyDesign = "nested-case-control")
          => out = IF fn = "calculatePowerForEffect"
                   THEN calculateLogisticPower(args.effect, 0, 0, args.alpha,
                            Design(args.app.numCases, args.app.numControls), 0)
                   ELSE calculateLogisticMinEffect(args.app.targetPower, 0, 0,
                            args.alpha,
                            Design(args.app.numCases, args.app.numControls), 0)

\* Power of a two-sided test of a ratio effect from the standard error se
RatioPowerFromSE(effect, se, alpha) ==
    TwoSidedPower(FDiv(FAbs(FLog(effect)), se), ZAlpha(alpha))

\* Minimum detectable ratio effect from the standard error se
MinRatioFromSE(targetPower, se, alpha) ==
    FExp(FMul(FAdd(ZAlpha(alpha), normalQuantile(targetPower)), se))

\* C23: for Cox analysis with studyDesign "nested-case-control" and matching
\* ratio m, the application computes power and the minimum detectable hazard
\* ratio with the standard error calculateCoxSE(events) * sqrt(1 + 1/m), the
\* standard error it displays for that design.
C23_NestedCaseControlCox ==
    (/\ pc = "returned"
     /\ fn \in {"calculatePowerForEffect", "calculateMinEffectForAlpha"}
     /\ args.app.analysisType = "cox"
     /\ args.app.studyDesign = "nested-case-control")
       => out = IF fn = "calculatePowerForEffect"
                THEN RatioPowerFromSE(args.effect, standardError(args.app),
                                      args.alpha)
                ELSE MinRatioFromSE(args.app.targetPower,
                                    standardError(args.app), args.alpha)

\* The same statement for the designs whose displayed standard error the
\* dispatcher does use: cohort and case-cohort
C23_DisplayedSEUsedElsewhere ==
    (/\ pc = "returned"
     /\ fn \in {"calculatePowerForEffect", "calculateMinEffectForAlpha"}
     /\ args.app.analysisType = "cox"
     /\ args.app.studyDesign # "nested-case-control")
       => out = IF fn = "calculatePowerForEffect"
                THEN RatioPowerFromSE(args.effect, standardError(args.app),
                                      args.alpha)
                ELSE MinRatioFromSE(args.app.targetPower,
                                    standardError(args.app), args.alpha)

\* The per-model power for a parameter bundle when a default replaces only an
\* unset field: residualSD 1, prevalence 0.1, clusterSize 1, icc 0,
\* events / sampleSize 0
SuppliedPower(p) ==
    LET r2 == DefaultTo(p.covariateR2, 0)
    IN  CASE p.analysisType = "cox" ->
               calculateCoxPower(p.effectSize, DefaultTo(p.events, 0), p.alpha,
                   IF p.studyDesign = "case-cohort" /\ Supplied(p.subcohortSize)
                      /\ Supplied(p.totalCohort)
                   THEN Design(p.subcohortSize, p.totalCohort) ELSE NoDesign, r2)
          [] p.analysisType = "linear" ->
               calculateLinearPower(p.effectSize, DefaultTo(p.sampleSize, 0),
                                    DefaultTo(p.residualSD, One), p.alpha, r2)
          [] p.analysisType = "logistic" ->
               IF p.studyDesign = "case-control" /\ Supplied(p.cases)
                  /\ Supplied(p.controls)
               THEN calculateLogisticPower(p.effectSize, 0, 0, p.alpha,
                                           Design(p.cases, p.controls), r2)
               ELSE calculateLogisticPower(p.effectSize, DefaultTo(p.sampleSize, 0),
                                           DefaultTo(p.prevalence, S \div 10),
                                           p.alpha, NoDesign, r2)
          [] p.analysisType = "poisson" ->
               calculatePoissonPower(p.effectSize, DefaultTo(p.sampleSize, 0),
                                     DefaultTo(p.prevalence, S \div 10), p.alpha, r2)
          [] p.analysisType = "gee" ->
               calculateGEE_Power(p.effectSize, DefaultTo(p.sampleSize, 0),
                                  DefaultTo(p.clusterSize, One),
                                  DefaultTo(p.icc, 0),
                                  DefaultTo(p.residualSD, One), p.alpha, r2)
          [] OTHER -> 0

\* The per-model minimum detectable effect under the same default-filling
SuppliedMinEffect(p) ==
    LET r2 == DefaultTo(p.covariateR2, 0)
    IN  CASE p.analysisType = "cox" ->
               calculateCoxMinEffect(p.targetPower, DefaultTo(p.events, 0), p.alpha,
                   IF p.studyDesign = "case-cohort" /\ Supplied(p.subcohortSize)
                      /\ Supplied(p.totalCohort)
                   THEN Design(p.subcohortSize, p.totalCohort) ELSE NoDesign, r2)
          [] p.analysisType = "linear" ->
               calculateLinearMinEffect(p.targetPower, DefaultTo(p.sampleSize, 0),
                                        DefaultTo(p.residualSD, One), p.alpha, r2)
          [] p.analysisType = "logistic" ->
               IF p.studyDesign = "case-control" /\ Supplied(p.cases)
                  /\ Supplied(p.controls)
               THEN calculateLogisticMinEffect(p.targetPower, 0, 0, p.alpha,
                                               Design(p.cases, p.controls), r2)
               ELSE calculateLogisticMinEffect(p.targetPower,
                                               DefaultTo(p.sampleSize, 0),
                                               DefaultTo(p.prevalence, S \div 10),
                                               p.alpha, NoDesign, r2)
          [] p.analysisType = "poisson" ->
               calculatePoissonMinEffect(p.targetPower, DefaultTo(p.sampleSize, 0),
                                         DefaultTo(p.prevalence, S \div 10),
                                         p.alpha, r2)
          [] p.analysisType = "gee" ->
               calculateGEE_MinEffect(p.targetPower, DefaultTo(p.sampleSize, 0),
                                      DefaultTo(p.clusterSize, One),
                                      DefaultTo(p.icc, 0),
                                      DefaultTo(p.residualSD, One), p.alpha, r2)
          [] OTHER -> Infinity

\* C24: the unified dispatch layer substitutes a default only for an optional
\* field that is unset; every supplied value, a supplied 0 included, reaches
\* the per-model function unchanged, so calculatePower and calculateMinEffect
\* equal the per-model function called with the supplied values.
C24_DefaultsOnlyForUnsetFields ==
    /\ (pc = "returned" /\ fn = "calculatePower")
          => out = SuppliedPower(args.params)
    /\ (pc = "returned" /\ fn = "calculateMinEffect")
          => out = SuppliedMinEffect(args.params)

\* The same equality for the bundles in which no optional field is a supplied 0
C24_HoldsWithoutSuppliedZero ==
    (/\ pc = "returned" /\ fn \in {"calculatePower", "calculateMinEffect"}
     /\ args.params.residualSD # 0 /\ args.params.controls # 0)
       => out = IF fn = "calculatePower" THEN SuppliedPower(args.params)
                ELSE SuppliedMinEffect(args.params)

\* studyParams extended with analysisType, effectSize, alpha and sampleSize:
\* the bundle of the single-stage path for the call's study
ExtendedStudyParams(alpha, sampleSize) ==
    [Stage1PowerParams(args.effect, args.analysisType, alpha, sampleSize,
                       args.study)
        EXCEPT !.covariateR2 = args.study.covariateR2,
               !.subcohortSize = args.study.subcohortSize,
               !.totalCohort = args.study.totalCohort]

\* C25: calculateTwoStagePower honours the caller's study parameters like the
\* single-stage path: stage1Power equals calculatePower applied to studyParams
\* extended with analysisType, effectSize, alpha = stage1Alpha and sampleSize =
\* stage1SampleSize, so a covariateR2 or a case-cohort subcohortSize/totalCohort
\* in studyParams changes the stage power as it changes single-stage power.
C25_StudyParamsHonoured ==
    (pc = "returned" /\ fn = "calculateTwoStagePower") =>
        out.stage1Power =
            calculatePower(ExtendedStudyParams(out.stage1Alpha,
                                               args.stage.stage1SampleSize))

\* The same equality for the studies that give neither covariateR2 nor a
\* subcohort
C25_HoldsWithoutDroppedFields ==
    (/\ pc = "returned" /\ fn = "calculateTwoStagePower"
     /\ ~Supplied(args.study.covariateR2) /\ ~Supplied(args.study.subcohortSize))
       => out.stage1Power =
              calculatePower(ExtendedStudyParams(out.stage1Alpha,
                                                 args.stage.stage1SampleSize))

\* C26: for the same events, effect, alpha and covariateR2, and every
\* subcohortSize > 0 and totalCohort > 0 that calculateCoxCaseCohortSE accepts,
\* the case-cohort SE is at least the full-cohort SE (variance inflation
\* factor >= 1), hence case-cohort Cox power never exceeds full-cohort power.
C26_CaseCohortNeverBeatsFullCohort ==
    /\ (/\ pc = "returned" /\ fn = "calculateCoxCaseCohortSE"
        /\ args.design.a > 0 /\ args.design.b > 0)
          => FGe(out, calculateCoxSE(args.n, args.covariateR2))
    /\ (/\ pc = "returned" /\ fn = "calculateCoxPower" /\ args.design.given
        /\ args.design.a > 0 /\ args.design.b > 0)
          => FLe(out, calculateCoxPower(args.effect, args.n, args.alpha,
                                        NoDesign, args.covariateR2))

\* The same statement for subcohorts no larger than the cohort
C26_HoldsForSubcohortWithinCohort ==
    /\ (/\ pc = "returned" /\ fn = "calculateCoxCaseCohortSE"
        /\ args.design.a > 0 /\ args.design.b >= args.design.a)
          => FGe(out, calculateCoxSE(args.n, args.covariateR2))
    /\ (/\ pc = "returned" /\ fn = "calculateCoxPower" /\ args.design.given
        /\ args.design.a > 0 /\ args.design.b >= args.design.a)
          => FLe(out, calculateCoxPower(args.effect, args.n, args.alpha,
                                        NoDesign, args.covariateR2))


\* The arguments normalQuantile(1 - alpha / 2) can receive: none once the guard
\* `alpha <= 0 || alpha >= 1` has returned
AlphaQuantileArgs(alpha) ==
    IF FLe(alpha, 0) \/ FGe(alpha, One) THEN {}
    ELSE {FSub(One, FDiv(alpha, 2 * S))}

\* The arguments normalQuantile(targetPower) can receive: none once the guard
\* `targetPower <= 0 || targetPower >= 1` has returned
TargetQuantileArgs(targetPower) ==
    IF FLe(targetPower, 0) \/ FGe(targetPower, One) THEN {}
    ELSE {targetPower}

\* The three significance levels one calculateTwoStagePower call hands to
\* calculatePower: stage 1, stage 2 and the single-stage comparison
TwoStageAlphas(result, stage) ==
    {result.stage1Alpha, result.stage2PerProteinAlpha,
     calculateEffectiveAlpha(S \div 20, stage.stage1Proteins, "fdr")}

\* The quantile argument of calculateLinearPowerFromR2: none when its guard on
\* sampleSize, r2 or alpha has returned
LinearPowerFromR2QuantileArgs(r2, sampleSize, alpha) ==
    IF FLe(sampleSize, 2 * S) \/ FLe(r2, 0) \/ FGe(r2, One) THEN {}
    ELSE AlphaQuantileArgs(alpha)

\* The quantile arguments of the calls made so far on behalf of the call in
\* progress or returned (for the other calculators: of the calls their guards
\* on alpha and targetPower let through)
QuantileArgs ==
    IF fn = "calculateLinearPowerFromR2"
    THEN LinearPowerFromR2QuantileArgs(args.effect, args.n, args.alpha)
    ELSE IF fn \in {"calculateCoxPower", "calculateLinearPower",
                    "calculateLogisticPower", "calculatePoissonPower",
                    "calculateGEE_Power"}
    THEN AlphaQuantileArgs(args.alpha)
    ELSE IF fn \in {"calculateCoxMinEffect", "calculateLinearMinEffect",
                    "calculateLogisticMinEffect", "calculatePoissonMinEffect",
                    "calculateGEE_MinEffect", "calculateCoxRequiredEvents",
                    "calculateLinearRequiredN", "calculateLogisticRequiredN",
                    "calculatePoissonRequiredN", "calculateGEE_RequiredN",
                    "calculateGEE_RequiredClusters"}
    THEN AlphaQuantileArgs(args.alpha) \cup TargetQuantileArgs(args.targetPower)
    ELSE IF fn = "calculatePower" THEN AlphaQuantileArgs(args.params.alpha)
    ELSE IF fn = "calculateMinEffect"
    THEN AlphaQuantileArgs(args.params.alpha)
             \cup TargetQuantileArgs(args.params.targetPower)
    ELSE IF fn = "calculateTwoStagePower"
    THEN UNION {AlphaQuantileArgs(a) : a \in TwoStageAlphas(out, args.stage)}
    ELSE IF fn = "findOptimalStage1FDR"
    THEN UNION {AlphaQuantileArgs(a) :
                   a \in UNION {TwoStageAlphas(
                                    calculateTwoStagePower(args.effect, args.analysisType,
                                        [args.stage EXCEPT !.stage1FDR = args.fdrGrid[k]],
                                        args.study),
                                    args.stage) : k \in 1..Len(args.fdrGrid)}}
    ELSE IF fn = "calculateRequiredStage2Size" /\ evaluations > 0
    THEN UNION {AlphaQuantileArgs(a) :
                   a \in TwoStageAlphas(
                             calculateTwoStagePower(args.effect, args.analysisType,
                                 [args.stage EXCEPT !.stage2SampleSize =
                                                       ((low + high) \div 2) * S],
                                 args.study),
                             args.stage)}
    ELSE {}

\* C27: every argument normalQuantile receives from the power, minimum-effect
\* and required-N calculators, directly or through calculatePower,
\* calculateMinEffect, calculateTwoStagePower, findOptimalStage1FDR and
\* calculateRequiredStage2Size, lies strictly between 0 and 1.
C27_QuantileArgumentInUnitInterval ==
    \A q \in QuantileArgs : FGt(q, 0) /\ FLt(q, One)

\* The same statement for calls whose significance level is a number other
\* than NaN
C27_HoldsForComparableAlpha ==
    ~IsNaN(args.alpha) => \A q \in QuantileArgs : FGt(q, 0) /\ FLt(q, One)

\* C28: after any sequence of add operations (Add button, Enter key, quick-add
\* presets) and remove operations, proteinCounts never holds more than 6
\* entries.
C28_AtMostSixScenarios == Len(proteinCounts) <= MaxScenarios

\* The list grows past 6 entries by the Enter key only
C28_OnlyEnterExceedsSix ==
    [][(Len(proteinCounts) <= MaxScenarios /\ Len(proteinCounts') > MaxScenarios)
          => PressEnter]_vars

\* A list of protein counts is non-empty, strictly ascending and made of
\* integers from 1 to 100000
WellFormedCounts(list) ==
    /\ Len(list) >= 1
    /\ \A k \in 1..Len(list) : list[k] \in 1..MaxProteinCount
    /\ \A k \in 1..(Len(list) - 1) : list[k] < list[k + 1]

\* An add that addProteinCount rejects
RejectedAdd ==
    (ClickAdd \/ PressEnter) /\ ~AddAccepts(proteinCounts, newProteinCount)

\* C29: starting from [1, 5000], after any sequence of addProteinCount,
\* quick-add and removeProteinCount operations the list is non-empty, strictly
\* ascending and every entry is an integer in [1, 100000]; an add the handler
\* rejects and a remove of the only entry leave the list unchanged.
C29_ProteinCountsWellFormed ==
    /\ []WellFormedCounts(proteinCounts)
    /\ [][(RejectedAdd => proteinCounts' = proteinCounts)
          /\ (Len(proteinCounts) = 1 => Len(proteinCounts') >= 1)]_vars

\* The typed counts 7 and 12 (from 12.5) were added, 5000 was removed, and the
\* input holds a text addProteinCount rejects
C29_Witness ==
    /\ proteinCounts = <<1, 7, 12>>
    /\ newProteinCount = <<"-", "5">>

\* C30: for numPoints >= 1, generatePowerCurve returns exactly numPoints points,
\* ordered by strictly increasing hr when hrMin < hrMax, the first at hrMin and
\* the last at hrMax, each with the power calculateCoxPower gives at its hr,
\* never NaN.
C30_PowerCurvePoints ==
    (pc = "returned" /\ fn = "generatePowerCurve" /\ args.numPoints >= 1) =>
        /\ Len(out) = args.numPoints
        /\ args.hrMin < args.hrMax =>
               \A k \in 1..(Len(out) - 1) : FLt(out[k].hr, out[k + 1].hr)
        /\ FEq(out[1].hr, args.hrMin)
        /\ FEq(out[Len(out)].hr, args.hrMax)
        /\ \A k \in 1..Len(out) :
               /\ ~IsNaN(out[k].power)
               /\ FEq(out[k].power,
                      calculateCoxPower(out[k].hr, args.n, args.alpha, NoDesign, 0))

\* From 2 points on, over a range at least 0.001 wide per step: the same
\* statement with the power taken within the tolerance of one rounding of hr
C30_HoldsFromTwoPoints ==
    (/\ pc = "returned" /\ fn = "generatePowerCurve" /\ args.numPoints >= 2
     /\ args.hrMax - args.hrMin >= S \div 100) =>
        /\ Len(out) = args.numPoints
        /\ \A k \in 1..(Len(out) - 1) : FLt(out[k].hr, out[k + 1].hr)
        /\ FEq(out[1].hr, args.hrMin)
        /\ FEq(out[Len(out)].hr, args.hrMax)
        /\ \A k \in 1..Len(out) :
               /\ ~IsNaN(out[k].power)
               /\ FLe(FAbs(FSub(out[k].power,
                                calculateCoxPower(out[k].hr, args.n, args.alpha,
                                                  NoDesign, 0))),
                      PowerTolerance)

=============================================================================
